---- MODULE Spec2Model ----
(***************************************************************************)
(* Position & risk manager of the KDJ trading bot (BinanceTradingBot in    *)
(* binance_bot_core.py): position state, trade ledger, the four order      *)
(* operations and the evaluation cycle, with the Exchange Gateway as a     *)
(* nondeterministic environment.                                           *)
(*                                                                         *)
(* Units.  Base-asset quantities are integers in micro-coins (1e-6 coin),  *)
(* quote amounts in micro-USDT, prices in USDT per coin, so that           *)
(* price * quantity is a quote amount in micro-USDT.  Percentages are kept *)
(* exact as numerators over a common denominator (see ProfitNum, StopNum); *)
(* arithmetic is that of the reals, binary floating point rounding of the  *)
(* Python code is not modelled.                                            *)
(***************************************************************************)
EXTENDS Integers, Sequences, FiniteSets, TLC

\* ------------------------------------------------------------------ bounds
\* longest trade ledger explored; an operation that would append to a full
\* ledger is not taken
MaxTrades == 2
\* longest sequence of regime detections explored
MaxDetections == 3
\* longest ledger handed to the aggregation
MaxLedger == 2
\* most candles of a series given to the indicator functions
MaxCandles == 5

\* ------------------------------------------------------- program constants
\* min_order_value = 11.0 USDT, in micro-USDT
MinOrderValue == 11000000
\* balance below which a position is treated as gone: 0.0001 coin
DustThreshold == 100
\* value returned by get_wallet_balance when the query fails: 0.000001
FailedBalance == 1
\* max_retries of safe_api_call
MaxApiRetries == 3
\* retry_delay of safe_api_call, seconds
RetryDelay == 5
\* retry_delay of safe_api_call once the rate limit was hit, seconds
RateLimitDelay == 10
\* max_retries of execute_trading_strategy
MaxCycleRetries == 3

\* stop_loss_percentage, take_profit_percentage in half-percents
\* (1.5% = 3, 1.0% = 2, 2.5% = 5), signal_strength_threshold as it is
market_conditions ==
    [TRENDING |-> [signal_strength_threshold |-> 4,
                   take_profit_x2 |-> 5,
                   stop_loss_x2 |-> 3],
     RANGING  |-> [signal_strength_threshold |-> 6,
                   take_profit_x2 |-> 3,
                   stop_loss_x2 |-> 2]]

\* ---------------------------------------------- environment value sets
\* prices the ticker can report and orders can fill at
Prices == {613, 619, 625}
\* quote balances the exchange can report, micro-USDT (100 USDT)
QuoteBalances == {100000000}
\* LOT_SIZE stepSize values of the traded symbol, micro-coins (0.1 coin)
StepSizes == {100000}
\* leverage values the operator can have set (futures)
Leverages == {1, 2}
\* notional of the quantity passed to a direct buy()/short() call
Notionals == {11000000, 75000000}
\* powers of ten a quantity can be rounded to, micro-coins
PowersOfTen == {1000, 10000, 100000, 1000000}

\* what the environment of one run can do beyond answering every request
\* plainly: order requests raise (and succeed on a retry), order responses
\* lack the fill fields, orders are reported unfilled or partly filled,
\* the exchange info lookup fails, balance queries fail, the account
\* changes outside the bot, the market data changes or is missing
Scenarios == {"order_errors", "ambiguous", "unfilled", "lookup_failure",
              "balance_failure", "drift", "data"}
\* the same for a run of the evaluation loop, where in addition the steps
\* of a cycle can raise
RunScenarios == Scenarios \cup {"step_errors"}
\* the same for the study of the ledger, where in addition the trade
\* history file can be unwritable
LedgerScenarios == Scenarios \cup {"trades_file_failure"}

VARIABLES
    scenario,                   \* environment: what it can do in this run
    trading_mode,               \* "SPOT" or "FUTURES"
    leverage,
    in_position,
    position_side,              \* "LONG", "SHORT" or "None"
    position_price,
    position_amount,
    last_action,
    current_market_condition,
    trades_history,             \* the ledger, oldest first
    saved_state,                \* content of the state file
    trades_file,                \* content of the trade history file
    lot_step,                   \* exchange: LOT_SIZE stepSize of the symbol
    quote_balance,              \* exchange: free balance of the quote asset
    kdj_params,                 \* (k_period, k_smooth, d_smooth) per timeframe
    exchange_held,              \* exchange: base balance / open position size
    last_op,                    \* observation: last operation run
    last_ret,                   \* observation: its return value
    last_fault,                 \* observation: exception raised by its order
    orders_submitted,           \* observation: order requests it sent
    exit_quantity,              \* observation: quantity of its exit order
    cycle_rule,                 \* observation: rule the last cycle ended in
    cycle_price,                \* observation: current_price of that cycle
    cycle_regime,               \* observation: market_condition of that cycle
    cycle_attempts,             \* observation: pipeline attempts of that cycle
    run_state,                  \* TradingStrategy.run: "running", "interrupted"
                                \* or "failed"
    fn_input,                   \* argument of the function under study
    fn_output                   \* what it returned: empty before the call
                                \* and after any other operation, the one
                                \* result after it

vars == <<scenario, trading_mode, leverage, in_position, position_side, position_price,
          position_amount, last_action, current_market_condition,
          trades_history, saved_state, trades_file, lot_step, quote_balance, kdj_params, exchange_held,
          last_op,
          last_ret, last_fault, orders_submitted, exit_quantity,
          cycle_rule, cycle_price,
          cycle_regime, cycle_attempts, run_state, fn_input, fn_output>>

\* ---------------------------------------------------------------- helpers
Min(a, b) == IF a <= b THEN a ELSE b
Max(a, b) == IF a >= b THEN a ELSE b
Abs(a) == IF a >= 0 THEN a ELSE 0 - a

NoStop == 0 - 1

\* the bot object as one record, threaded through the operations
Bot ==
    [in_position |-> in_position,
     position_side |-> position_side,
     position_price |-> position_price,
     position_amount |-> position_amount,
     last_action |-> last_action,
     current_market_condition |-> current_market_condition,
     trades_history |-> trades_history,
     saved_state |-> saved_state,
     trades_file |-> trades_file,
     exchange_held |-> exchange_held]

\* what save_state writes (trading_pair and timestamp left out)
StateOf(b) ==
    [in_position |-> b.in_position,
     position_side |-> b.position_side,
     position_price |-> b.position_price,
     position_amount |-> b.position_amount,
     last_action |-> b.last_action,
     leverage |-> leverage,
     market_condition |-> b.current_market_condition]

\* save_state: the whole state is written in one call
save_state(b) == [b EXCEPT !.saved_state = StateOf(b)]

\* load_state: the fields a newly constructed bot takes from the state
\* file
load_state(state) ==
    [in_position |-> state.in_position,
     position_price |-> state.position_price,
     position_amount |-> state.position_amount,
     position_side |-> state.position_side,
     last_action |-> state.last_action,
     leverage |-> state.leverage,
     current_market_condition |-> state.market_condition]

\* save_trades_history: the whole ledger is written to the file; a
\* failure to write is logged and leaves the file as it was
save_trades_history(b) ==
    IF scenario = "trades_file_failure"
    THEN b
    ELSE [b EXCEPT !.trades_file = b.trades_history]

\* add_trade that keeps a record only once it is on file
add_trade_OnlyWhenSaved(b, trade_type, price_from, profit_loss, details) ==
    IF scenario = "trades_file_failure"
    THEN b
    ELSE save_trades_history(
            [b EXCEPT !.trades_history =
                Append(@, [type |-> trade_type,
                           price_from |-> price_from,
                           profit_loss |-> profit_loss,
                           details |-> details])])

\* add_trade: one record appended, then the ledger saved; price_from says
\* where the price of the record was read ("fill": the order response,
\* "requested": the price passed to the operation), profit_loss is "None"
\* or "set", details is the fallback flag of the record ("none" when
\* absent)
add_trade(b, trade_type, price_from, profit_loss, details) ==
    save_trades_history(
        [b EXCEPT !.trades_history =
            Append(@, [type |-> trade_type,
                       price_from |-> price_from,
                       profit_loss |-> profit_loss,
                       details |-> details])])

\* ------------------------------------------- calculate_total_profit_loss()
\* a trade record as the aggregation reads it: its type, its profit_loss
\* (the empty set for None, else the set of the one amount) and its
\* value_usdt, amounts in USDT
EntryTypes == {"buy", "long", "short"}
ExitTypes == {"sell", "close_long", "close_short"}
TradeRecords ==
    [type : EntryTypes \cup ExitTypes,
     profit_loss : {{}, {0 - 2}, {3}},
     value_usdt : {11, 75}]

\* sum() of a sequence of numbers
RECURSIVE SeqSum(_)
SeqSum(q) == IF q = <<>> THEN 0 ELSE Head(q) + SeqSum(Tail(q))

\* what a trade adds to total_profit_loss, whatever its type
ProfitOf_AnyType(trade) ==
    IF trade.profit_loss # {}
    THEN CHOOSE v \in trade.profit_loss : TRUE
    ELSE 0

\* what a trade adds to total_profit_loss
ProfitOf(trade) ==
    IF trade.type \in ExitTypes /\ trade.profit_loss # {}
    THEN CHOOSE v \in trade.profit_loss : TRUE
    ELSE 0

\* the loop over the ledger from trade i on, acc the totals so far
RECURSIVE TotalsFrom(_, _, _)
TotalsFrom(ledger, i, acc) ==
    IF i > Len(ledger)
    THEN acc
    ELSE LET trade == ledger[i]
         IN  TotalsFrom(ledger, i + 1,
                [total_profit_loss |->
                    acc.total_profit_loss + ProfitOf(trade),
                 total_buy_volume |->
                    IF trade.type \in EntryTypes
                    THEN acc.total_buy_volume + trade.value_usdt
                    ELSE acc.total_buy_volume,
                 total_sell_volume |->
                    IF trade.type \in EntryTypes
                    THEN acc.total_sell_volume
                    ELSE IF trade.type \in ExitTypes
                    THEN acc.total_sell_volume + trade.value_usdt
                    ELSE acc.total_sell_volume])

\* calculate_total_profit_loss of a ledger; roi_percentage is the
\* fraction roi_num / roi_den
calculate_total_profit_loss(ledger) ==
    LET totals == TotalsFrom(ledger, 1,
                    [total_profit_loss |-> 0,
                     total_buy_volume |-> 0,
                     total_sell_volume |-> 0])
        Ones(types) == [i \in 1..Len(ledger) |->
                            IF ledger[i].type \in types THEN 1 ELSE 0]
    IN  [total_profit_loss |-> totals.total_profit_loss,
         total_buy_volume |-> totals.total_buy_volume,
         total_sell_volume |-> totals.total_sell_volume,
         roi_num |-> IF totals.total_buy_volume > 0
                     THEN totals.total_profit_loss * 100
                     ELSE 0,
         roi_den |-> IF totals.total_buy_volume > 0
                     THEN totals.total_buy_volume
                     ELSE 1,
         total_trades |-> Len(ledger),
         buy_trades |-> SeqSum(Ones(EntryTypes)),
         sell_trades |-> SeqSum(Ones(ExitTypes))]

\* ------------------------------------------------------- exchange gateway
\* outcome of one call of a gateway function
AttemptOutcomes == {"ok", "api_insufficient", "api_other", "error"}
\* behaviour of the gateway over the attempts of one safe_api_call
GatewayBehaviours == [1..MaxApiRetries -> AttemptOutcomes]

\* safe_api_call from the given attempt on: the function is called until
\* it succeeds, at most MaxApiRetries times; the last exception is
\* re-raised.  retry_delay is the delay in force, slept the sleeps so far;
\* an exception naming the rate limit ("Too many requests") extends the
\* delay for the rest of the call
RECURSIVE SafeApiCallFrom(_, _, _, _)
SafeApiCallFrom(outs, attempt, retry_delay, slept) ==
    IF outs[attempt] = "ok"
    THEN [calls |-> attempt, raised |-> "none", slept |-> slept]
    ELSE LET delay == IF outs[attempt] = "rate_limit"
                      THEN RateLimitDelay
                      ELSE retry_delay
         IN  IF attempt < MaxApiRetries
             THEN SafeApiCallFrom(outs, attempt + 1, delay,
                                  Append(slept, delay))
             ELSE [calls |-> attempt, raised |-> outs[attempt],
                   slept |-> slept]
\* safe_api_call with the extended delay in force from the start
safe_api_call_LongDelayFromStart(outs) ==
    SafeApiCallFrom(outs, 1, RateLimitDelay, <<>>)

safe_api_call(outs) == SafeApiCallFrom(outs, 1, RetryDelay, <<>>)

\* outcome of one call of any gateway function: as above, or the
\* exception of the rate limit ("Too many requests")
CallOutcomes == AttemptOutcomes \cup {"rate_limit"}
CallBehaviours == [1..MaxApiRetries -> CallOutcomes]

\* the results safe_api_call can have for an order request
OrderResults ==
    {safe_api_call(o) :
        o \in IF scenario = "order_errors"
              THEN GatewayBehaviours
              ELSE {[i \in 1..MaxApiRetries |-> "ok"]}}
\* whether an order response can lack the fill fields
AmbiguousResponses == scenario = "ambiguous"
\* whether the exchange info lookup of a precision adjustment succeeds
LookupResults == IF scenario = "lookup_failure" THEN BOOLEAN ELSE {TRUE}

\* get_wallet_balance(base asset), spot: the exchange's balance, or the
\* 0.000001 returned when the query raised
BaseBalanceResults(b) ==
    {b.exchange_held} \cup
    (IF scenario = "balance_failure" THEN {FailedBalance} ELSE {})
\* get_wallet_balance(quote asset)
QuoteBalanceResults ==
    {quote_balance} \cup
    (IF scenario = "balance_failure" THEN {FailedBalance} ELSE {})

\* precision = int(round(-log10(step_size))): the power of ten nearest to
\* the step on the log scale; quantities are floored to 10**-precision
PrecisionUnit(step) ==
    CHOOSE u \in PowersOfTen :
        LET a == u \div 1000
            s == step \div 1000
        IN  a * a < 10 * s * s /\ s * s < 10 * a * a
\* np.floor(quantity * 10**precision) / 10**precision
FloorTo(quantity, unit) == (quantity \div unit) * unit

\* executedQty an order of the given quantity can report
FillChoices(quantity) ==
    IF scenario = "unfilled"
    THEN {0, quantity} \cup {q \in {lot_step} : q < quantity}
    ELSE {quantity}
\* average fill price reported for an order placed at `price`: the order
\* fills at the price the cycle read
FillPrice(price) == price
\* where fill_price comes from when executedQty = e was read: the
\* requested price when nothing filled, and in futures also when the
\* response carries no `fills`; else the response
FillPriceSources(e) ==
    IF e = 0
    THEN {"requested"}
    ELSE IF trading_mode = "FUTURES" /\ AmbiguousResponses
    THEN {"fill", "requested"}
    ELSE {"fill"}
\* base holding (futures: open position size) the exchange has after an
\* entry fill of e: the fill, or nothing of it (withdrawn, locked,
\* liquidated before the bot looks)
HeldAfterBuy(held, e) == IF scenario = "drift" THEN {e, 0} ELSE {e}
\* after an accepted exit order: the holding is sold (what stays below
\* the lot size is neglected)
HeldAfterSell(held) == 0

\* result of one operation: the bot after it, its return value, the
\* exception its order request ended in, the order requests sent and the
\* quantity of the exit order requested (0 if none)
Result(b, ret, fault, submitted) ==
    [b |-> b, ret |-> ret, fault |-> fault, submitted |-> submitted,
     quantity |-> 0]

Fits(r) == Len(r.b.trades_history) <= MaxTrades

IsFutures == trading_mode = "FUTURES"

\* sell() recording a profit also when the fill data cannot be read
SellFilled_FallbackCarriesProfit(b, quantity, calls) ==
    LET trade_type == IF IsFutures THEN "close_long" ELSE "sell"
        Close(x) == save_state(
            [x EXCEPT !.in_position = FALSE,
                      !.last_action = trade_type,
                      !.position_side =
                          IF IsFutures THEN "None" ELSE @])
        sold == [b EXCEPT !.exchange_held = HeldAfterSell(@)]
    IN  {Result(Close(add_trade(sold, trade_type, price_from, "set",
                                "none")),
                TRUE, "none", calls) :
            price_from \in FillPriceSources(quantity)}
        \cup
        (IF AmbiguousResponses
         THEN {Result(Close(add_trade(sold, trade_type, "requested",
                                      "set", "fallback_values_used")),
                      TRUE, "none", calls)}
         ELSE {})

\* --------------------------------------------------------------- sell()
\* the order of sell() was accepted: the trade is recorded from the fill
\* data, or with fallback values when they cannot be read, then the
\* position is closed
SellFilled(b, quantity, calls) ==
    LET trade_type == IF IsFutures THEN "close_long" ELSE "sell"
        Close(x) == save_state(
            [x EXCEPT !.in_position = FALSE,
                      !.last_action = trade_type,
                      !.position_side =
                          IF IsFutures THEN "None" ELSE @])
        sold == [b EXCEPT !.exchange_held = HeldAfterSell(@)]
    IN  {Result(Close(add_trade(sold, trade_type, price_from, "set",
                                "none")),
                TRUE, "none", calls) :
            price_from \in FillPriceSources(quantity)}
        \cup
        (IF AmbiguousResponses
         THEN {Result(Close(add_trade(sold, trade_type, "requested",
                                      "None", "fallback_values_used")),
                      TRUE, "none", calls)}
         ELSE {})

\* sell() with a handler that closes the position on every exchange error
SellOrder_ClosesOnAnyApiError(b, quantity) ==
    {[r EXCEPT !.quantity = quantity] : r \in
    UNION {
        IF o.raised = "none"
        THEN SellFilled(b, quantity, o.calls)
        ELSE IF o.raised \in {"api_insufficient", "api_other"}
        THEN {Result(save_state([b EXCEPT !.in_position = FALSE,
                                          !.position_side = "None"]),
                     FALSE, o.raised, o.calls)}
        ELSE {Result(b, FALSE, o.raised, o.calls)}
        : o \in OrderResults}}

\* the order request of sell() through safe_api_call and its handlers
SellOrder(b, quantity) ==
    {[r EXCEPT !.quantity = quantity] : r \in
    UNION {
        IF o.raised = "none"
        THEN SellFilled(b, quantity, o.calls)
        ELSE IF o.raised = "api_insufficient"
        THEN {Result(save_state([b EXCEPT !.in_position = FALSE,
                                          !.position_side = "None"]),
                     FALSE, o.raised, o.calls)}
        ELSE {Result(b, FALSE, o.raised, o.calls)}
        : o \in OrderResults}}

\* precision adjustment of sell() and the check of the adjusted quantity
SellQuantity(b, balance) ==
    UNION {
        LET sell_quantity ==
                IF lookup_ok
                THEN FloorTo(balance, PrecisionUnit(lot_step))
                ELSE balance
        IN  IF sell_quantity <= 0
            THEN {Result(save_state([b EXCEPT !.in_position = FALSE]),
                         FALSE, "none", 0)}
            ELSE SellOrder(b, sell_quantity)
        : lookup_ok \in LookupResults}

sell(b, price) ==
    IF ~b.in_position
    THEN {Result(b, FALSE, "none", 0)}
    ELSE IF IsFutures /\ b.position_side # "LONG"
    THEN {Result(b, FALSE, "none", 0)}
    ELSE IF ~IsFutures
    THEN UNION {
            IF balance < DustThreshold
            THEN {Result(save_state([b EXCEPT !.in_position = FALSE]),
                         FALSE, "none", 0)}
            ELSE SellQuantity(b, balance)
            : balance \in BaseBalanceResults(b)}
    ELSE IF b.position_amount <= 0
         THEN {Result(save_state([b EXCEPT !.in_position = FALSE,
                                           !.position_side = "None"]),
                      FALSE, "none", 0)}
         ELSE SellQuantity(b, b.position_amount)

\* --------------------------------------------------------- close_short()
\* close_short that records no trade when the order response lacks the
\* fill data
CloseShortFilled_FallbackUnrecorded(b, quantity, calls) ==
    LET Close(x) == save_state(
            [x EXCEPT !.in_position = FALSE,
                      !.position_side = "None",
                      !.last_action = "close_short"])
        closed == [b EXCEPT !.exchange_held = HeldAfterSell(@)]
    IN  {Result(Close(add_trade(closed, "close_short", price_from,
                                "set", "none")),
                TRUE, "none", calls) :
            price_from \in FillPriceSources(quantity)}
        \cup
        (IF AmbiguousResponses
         THEN {Result(Close(closed), TRUE, "none", calls)}
         ELSE {})

\* the order of close_short() was accepted: the trade recorded from the
\* fill data or from fallback values, the position closed
CloseShortFilled(b, quantity, calls) ==
    LET Close(x) == save_state(
            [x EXCEPT !.in_position = FALSE,
                      !.position_side = "None",
                      !.last_action = "close_short"])
        closed == [b EXCEPT !.exchange_held = HeldAfterSell(@)]
    IN  {Result(Close(add_trade(closed, "close_short", price_from,
                                "set", "none")),
                TRUE, "none", calls) :
            price_from \in FillPriceSources(quantity)}
        \cup
        (IF AmbiguousResponses
         THEN {Result(Close(add_trade(closed, "close_short",
                                      "requested", "None",
                                      "fallback_values_used")),
                      TRUE, "none", calls)}
         ELSE {})

CloseShortOrder(b, quantity) ==
    {[r EXCEPT !.quantity = quantity] : r \in
    UNION {
        IF o.raised = "none"
        THEN CloseShortFilled(b, quantity, o.calls)
        ELSE {Result(b, FALSE, o.raised, o.calls)}
        : o \in OrderResults}}

close_short(b, price) ==
    IF ~IsFutures
    THEN {Result(b, FALSE, "none", 0)}
    ELSE IF ~b.in_position \/ b.position_side # "SHORT"
    THEN {Result(b, FALSE, "none", 0)}
    ELSE UNION {
            LET close_quantity ==
                    IF lookup_ok
                    THEN FloorTo(b.position_amount,
                                 PrecisionUnit(lot_step))
                    ELSE b.position_amount
            IN  IF close_quantity <= 0
                THEN {Result(b, FALSE, "none", 0)}
                ELSE CloseShortOrder(b, close_quantity)
            : lookup_ok \in LookupResults}

\* ---------------------------------------------------------------- buy()
\* A requested quantity is carried as [amt, val]: amt the quantity in
\* micro-coins, val = price * quantity exactly (amt is val / price rounded
\* down to a micro-coin until the quantity is floored to the lot size).
Qty(val, price) == [amt |-> val \div price, val |-> val]

\* minimum order value: a smaller order is raised to it
RaiseToMinimum(val) == IF val < MinOrderValue THEN MinOrderValue ELSE val

\* quantity adjusted to the available balance (0.5% safety margin);
\* lev is the leverage applied to the balance (1 in spot)
SafeValue(balance, lev) == (balance \div 1000) * 995 * lev

\* precision adjustment of an entry order
AdjustPrecision(q, price, lookup_ok) ==
    IF lookup_ok
    THEN LET amt == FloorTo(q.val \div price, PrecisionUnit(lot_step))
         IN  [amt |-> amt, val |-> amt * price]
    ELSE q

\* buy() whose reconciliation against the balance is not written to the
\* state file
BuyFilled_ReconcileUnsaved(b, price, q, calls) ==
    LET trade_type == IF IsFutures THEN "long" ELSE "buy"
        Open(x, fill_price, amount) ==
            [x EXCEPT !.in_position = TRUE,
                      !.position_price = fill_price,
                      !.position_amount = amount,
                      !.position_side = IF IsFutures THEN "LONG" ELSE @,
                      !.last_action = trade_type]
        Reconcile(x, filled_quantity, actual_balance) ==
            IF Abs(actual_balance - filled_quantity) * 100 > filled_quantity
            THEN [x EXCEPT !.position_amount =
                                Min(filled_quantity, actual_balance)]
            ELSE x
        Confirmed(e, fill_price, held) ==
            UNION {
                LET x == save_state(add_trade(
                            Open([b EXCEPT !.exchange_held = held],
                                 fill_price, e),
                            trade_type, price_from, "None", "none"))
                IN  IF IsFutures
                    THEN {x}
                    ELSE {Reconcile(x, e, actual_balance) :
                            actual_balance \in BaseBalanceResults(x)}
                : price_from \in FillPriceSources(e)}
        Fallback(held) ==
            LET x == [b EXCEPT !.exchange_held = held]
            IN  {save_state(add_trade(
                    Open(x, price, amount),
                    trade_type, "requested", "None",
                    "fallback_balance_used")) :
                 amount \in IF IsFutures
                            THEN {q.amt}
                            ELSE BaseBalanceResults(x)}
    IN  {Result(x, TRUE, "none", calls) :
            x \in UNION {
                    UNION {Confirmed(e, FillPrice(price), held) :
                            held \in HeldAfterBuy(b.exchange_held, e)} :
                    e \in FillChoices(q.amt)}}
        \cup
        {Result(x, TRUE, "none", calls) :
            x \in UNION {Fallback(held) :
                    held \in IF AmbiguousResponses
                             THEN HeldAfterBuy(b.exchange_held, q.amt)
                             ELSE {}}}

\* the order of buy() was accepted: position opened from the fill data
\* (spot: then reconciled against the balance), or from fallback values
BuyFilled(b, price, q, calls) ==
    LET trade_type == IF IsFutures THEN "long" ELSE "buy"
        Open(x, fill_price, amount) ==
            [x EXCEPT !.in_position = TRUE,
                      !.position_price = fill_price,
                      !.position_amount = amount,
                      !.position_side = IF IsFutures THEN "LONG" ELSE @,
                      !.last_action = trade_type]
        Reconcile(x, filled_quantity, actual_balance) ==
            IF Abs(actual_balance - filled_quantity) * 100 > filled_quantity
            THEN save_state([x EXCEPT !.position_amount =
                                Min(filled_quantity, actual_balance)])
            ELSE x
        Confirmed(e, fill_price, held) ==
            UNION {
                LET x == save_state(add_trade(
                            Open([b EXCEPT !.exchange_held = held],
                                 fill_price, e),
                            trade_type, price_from, "None", "none"))
                IN  IF IsFutures
                    THEN {x}
                    ELSE {Reconcile(x, e, actual_balance) :
                            actual_balance \in BaseBalanceResults(x)}
                : price_from \in FillPriceSources(e)}
        Fallback(held) ==
            LET x == [b EXCEPT !.exchange_held = held]
            IN  {save_state(add_trade(
                    Open(x, price, amount),
                    trade_type, "requested", "None",
                    "fallback_balance_used")) :
                 amount \in IF IsFutures
                            THEN {q.amt}
                            ELSE BaseBalanceResults(x)}
    IN  {Result(x, TRUE, "none", calls) :
            x \in UNION {
                    UNION {Confirmed(e, FillPrice(price), held) :
                            held \in HeldAfterBuy(b.exchange_held, e)} :
                    e \in FillChoices(q.amt)}}
        \cup
        {Result(x, TRUE, "none", calls) :
            x \in UNION {Fallback(held) :
                    held \in IF AmbiguousResponses
                             THEN HeldAfterBuy(b.exchange_held, q.amt)
                             ELSE {}}}

\* the order request of buy() through safe_api_call and its handlers
BuyOrder(b, price, q) ==
    UNION {
        IF o.raised = "none"
        THEN BuyFilled(b, price, q, o.calls)
        ELSE {Result(b, FALSE, o.raised, o.calls)}
        : o \in OrderResults}

\* buy() without the check for an open SHORT
BuyAdjusted_NoShortCheck(b, price, q0) ==
    UNION {
        LET q == AdjustPrecision(q0, price, lookup_ok)
        IN  IF q.val < MinOrderValue
            THEN {Result(b, FALSE, "none", 0)}
            ELSE BuyOrder(b, price, q)
        : lookup_ok \in LookupResults}

\* buy() from the precision adjustment on
BuyAdjusted(b, price, q0) ==
    UNION {
        LET q == AdjustPrecision(q0, price, lookup_ok)
        IN  IF q.val < MinOrderValue
            THEN {Result(b, FALSE, "none", 0)}
            ELSE IF IsFutures /\ b.in_position /\ b.position_side = "SHORT"
            THEN {Result(b, FALSE, "none", 0)}
            ELSE BuyOrder(b, price, q)
        : lookup_ok \in LookupResults}

\* buy(price, quantity), val = price * quantity
buy(b, price, val) ==
    LET lev == IF IsFutures THEN leverage ELSE 1
        order_value == RaiseToMinimum(val)
    IN  UNION {
            IF balance * lev < order_value
            THEN IF SafeValue(balance, lev) >= MinOrderValue
                 THEN BuyAdjusted(b, price,
                                  Qty(SafeValue(balance, lev), price))
                 ELSE {Result(b, FALSE, "none", 0)}
            ELSE BuyAdjusted(b, price, Qty(order_value, price))
            : balance \in QuoteBalanceResults}

\* --------------------------------------------------------------- short()
ShortFilled(b, price, q, calls) ==
    LET Open(x, fill_price, amount) ==
            [x EXCEPT !.in_position = TRUE,
                      !.position_price = fill_price,
                      !.position_amount = amount,
                      !.position_side = "SHORT",
                      !.last_action = "short"]
    IN  UNION {
            {Result(save_state(add_trade(
                        Open([b EXCEPT !.exchange_held = r[1]],
                             FillPrice(price), e),
                        "short", r[2], "None", "none")),
                    TRUE, "none", calls) :
                r \in HeldAfterBuy(b.exchange_held, e)
                        \X FillPriceSources(e)} :
            e \in FillChoices(q.amt)}
        \cup
        {Result(save_state(add_trade(
                    Open([b EXCEPT !.exchange_held = held], price, q.amt),
                    "short", "requested", "None", "fallback_values_used")),
                TRUE, "none", calls) :
            held \in IF AmbiguousResponses
                     THEN HeldAfterBuy(b.exchange_held, q.amt)
                     ELSE {}}

ShortOrder(b, price, q) ==
    UNION {
        IF o.raised = "none"
        THEN ShortFilled(b, price, q, o.calls)
        ELSE {Result(b, FALSE, o.raised, o.calls)}
        : o \in OrderResults}

\* short() from the open-position check on
ShortAdjusted(b, price, q0) ==
    IF b.in_position /\ b.position_side = "LONG"
    THEN {Result(b, FALSE, "none", 0)}
    ELSE UNION {
            LET q == AdjustPrecision(q0, price, lookup_ok)
            IN  IF q.val < MinOrderValue
                THEN {Result(b, FALSE, "none", 0)}
                ELSE ShortOrder(b, price, q)
            : lookup_ok \in LookupResults}

\* short(price, quantity), val = price * quantity
\* short() without the check of the trading mode
short_AnyMode(b, price, val) ==
    LET order_value == RaiseToMinimum(val)
    IN  UNION {
            IF balance * leverage < order_value
            THEN IF SafeValue(balance, leverage) >= MinOrderValue
                 THEN ShortAdjusted(b, price,
                          Qty(SafeValue(balance, leverage), price))
                 ELSE {Result(b, FALSE, "none", 0)}
            ELSE ShortAdjusted(b, price, Qty(order_value, price))
            : balance \in QuoteBalanceResults}

\* short(price, quantity), val = price * quantity
short(b, price, val) ==
    IF ~IsFutures
    THEN {Result(b, FALSE, "none", 0)}
    ELSE LET order_value == RaiseToMinimum(val)
         IN  UNION {
                IF balance * leverage < order_value
                THEN IF SafeValue(balance, leverage) >= MinOrderValue
                     THEN ShortAdjusted(b, price,
                              Qty(SafeValue(balance, leverage), price))
                     ELSE {Result(b, FALSE, "none", 0)}
                ELSE ShortAdjusted(b, price, Qty(order_value, price))
                : balance \in QuoteBalanceResults}

\* ------------------------------------------------ regime and fused signal
\* what one run of detect_market_condition can come to: a computed label,
\* too few 4h candles, or an exception while computing
DetectOutcomes ==
    IF scenario = "data"
    THEN {"TRENDING", "RANGING", "insufficient", "error"}
    ELSE IF scenario = "step_errors"
    THEN {"TRENDING", "RANGING"}
    ELSE {"TRENDING"}

\* detect_market_condition that keeps the state file and the held regime
\* in step on every detection
detect_market_condition_SavesAlways(b, d) ==
    IF d = "insufficient"
    THEN [b |-> b, condition |-> "TRENDING", saved |-> FALSE]
    ELSE IF d = "error"
    THEN [b |-> b, condition |-> b.current_market_condition,
          saved |-> FALSE]
    ELSE [b |-> save_state([b EXCEPT !.current_market_condition = d]),
          condition |-> d, saved |-> TRUE]

\* detect_market_condition: the bot after it, the condition returned and
\* whether save_state was called
detect_market_condition(b, d) ==
    IF d = "insufficient"
    THEN [b |-> b, condition |-> "TRENDING", saved |-> FALSE]
    ELSE IF d = "error"
    THEN [b |-> b, condition |-> b.current_market_condition,
          saved |-> FALSE]
    ELSE IF d # b.current_market_condition
    THEN [b |-> save_state([b EXCEPT !.current_market_condition = d]),
          condition |-> d, saved |-> TRUE]
    ELSE [b |-> b, condition |-> d, saved |-> FALSE]

\* one timeframe's result of analyze_kdj_signals
Tf(signal, trend, golden_cross, death_cross, j_overbought, j_oversold) ==
    [signal |-> signal, trend |-> trend,
     golden_cross |-> golden_cross, death_cross |-> death_cross,
     j_overbought |-> j_overbought, j_oversold |-> j_oversold]
\* the sentinel of a timeframe without data (its flags read as False)
TfUndefined == Tf("UNDEFINED", "UNDEFINED", FALSE, FALSE, FALSE, FALSE)

\* -------------------------------------------------------- indicators
\* K, D, J and rsv values are integers in units of 1/KdjUnit: with spans
\* 1 and 3 every ewm step divides by 2 or 4, so a series of MaxCandles
\* values is exact
KdjUnit == 16 ^ (MaxCandles - 1)

\* rsv of row i (1-based): NaN while the rolling window is not full and
\* when the window has no range, replaced by 50
Rsv(df, i, k_period) ==
    IF i < k_period
    THEN 50 * KdjUnit
    ELSE LET window == (i - k_period + 1)..i
             low_min == CHOOSE x \in {df[j].low : j \in window} :
                            \A j \in window : x <= df[j].low
             high_max == CHOOSE x \in {df[j].high : j \in window} :
                            \A j \in window : x >= df[j].high
         IN  IF high_max = low_min
             THEN 50 * KdjUnit
             ELSE ((df[i].close - low_min) * 100 * KdjUnit)
                    \div (high_max - low_min)

\* x.ewm(span, adjust=False).mean() at row i, x given row by row:
\* y[1] = x[1], y[i] = alpha * x[i] + (1 - alpha) * y[i-1] with
\* alpha = 2 / (span + 1)
RECURSIVE Ewm(_, _, _)
Ewm(x, span, i) ==
    IF i = 1
    THEN x[1]
    ELSE (2 * x[i] + (span - 1) * Ewm(x, span, i - 1)) \div (span + 1)

\* calculate_kdj: the rows of K, D and J
calculate_kdj(df, k_period, k_smooth, d_smooth) ==
    LET rsv == [i \in 1..Len(df) |-> Rsv(df, i, k_period)]
        K == [i \in 1..Len(df) |-> Ewm(rsv, k_smooth, i)]
        D == [i \in 1..Len(df) |-> Ewm(K, d_smooth, i)]
    IN  [i \in 1..Len(df) |->
            [K |-> K[i], D |-> D[i], J |-> 3 * K[i] - 2 * D[i]]]

\* analyze_kdj_signals without the golden and death cross
analyze_kdj_signals_NoCross(df) ==
    IF Len(df) < 2
    THEN TfUndefined
    ELSE LET current == df[Len(df)]
             previous == df[Len(df) - 1]
             golden_cross == /\ previous.K <= previous.D
                             /\ current.K > current.D
             death_cross == /\ previous.K >= previous.D
                            /\ current.K < current.D
             trend ==
                IF current.K > 50 * KdjUnit /\ current.D > 50 * KdjUnit
                THEN "BULLISH"
                ELSE IF current.K < 50 * KdjUnit
                        /\ current.D < 50 * KdjUnit
                THEN "BEARISH"
                ELSE "NEUTRAL"
             j_overbought == current.J > 80 * KdjUnit
             j_oversold == current.J < 20 * KdjUnit
             signal ==
                IF current.K > current.D /\ j_oversold
                THEN "BUY"
                ELSE IF current.K < current.D /\ j_overbought
                THEN "SELL"
                ELSE "HOLD"
         IN  Tf(signal, trend, golden_cross, death_cross, j_overbought,
                j_oversold)

\* analyze_kdj_signals on the rows of K, D and J
analyze_kdj_signals(df) ==
    IF Len(df) < 2
    THEN TfUndefined
    ELSE LET current == df[Len(df)]
             previous == df[Len(df) - 1]
             golden_cross == /\ previous.K <= previous.D
                             /\ current.K > current.D
             death_cross == /\ previous.K >= previous.D
                            /\ current.K < current.D
             trend ==
                IF current.K > 50 * KdjUnit /\ current.D > 50 * KdjUnit
                THEN "BULLISH"
                ELSE IF current.K < 50 * KdjUnit
                        /\ current.D < 50 * KdjUnit
                THEN "BEARISH"
                ELSE "NEUTRAL"
             j_overbought == current.J > 80 * KdjUnit
             j_oversold == current.J < 20 * KdjUnit
             signal ==
                IF golden_cross \/ (current.K > current.D /\ j_oversold)
                THEN "BUY"
                ELSE IF death_cross
                        \/ (current.K < current.D /\ j_overbought)
                THEN "SELL"
                ELSE "HOLD"
         IN  Tf(signal, trend, golden_cross, death_cross, j_overbought,
                j_oversold)

\* one timeframe of analyze_multi_timeframe: no klines give the sentinel,
\* else the indicators are calculated with the timeframe's parameters and
\* analysed
analyze_timeframe(klines, params) ==
    IF klines = <<>>
    THEN TfUndefined
    ELSE analyze_kdj_signals(
            calculate_kdj(klines, params[1], params[2], params[3]))

Bit(c) == IF c THEN 1 ELSE 0

\* the fuser counting the 15m oversold/overbought flag also when the 5m
\* flag is set
RawStrength_BothExtremes(r) ==
    LET high_tf == r["4h"]
        medium_tf == r["1h"]
        low_tf == r["15m"]
        ultra_low_tf == r["5m"]
    IN  IF ultra_low_tf.signal = "BUY" \/ low_tf.signal = "BUY"
        THEN 3 * Bit(ultra_low_tf.signal = "BUY")
             + 2 * Bit(low_tf.signal = "BUY")
             + 2 * Bit(ultra_low_tf.golden_cross)
             + Bit(low_tf.golden_cross)
             + Bit(medium_tf.trend = "BULLISH")
             + 2 * Bit(high_tf.trend = "BULLISH")
             + Bit(medium_tf.signal = "BUY")
             + 2 * Bit(ultra_low_tf.j_oversold)
             + Bit(low_tf.j_oversold)
             - 2 * Bit(high_tf.trend = "BEARISH")
        ELSE IF ultra_low_tf.signal = "SELL" \/ low_tf.signal = "SELL"
        THEN 0 - 3 * Bit(ultra_low_tf.signal = "SELL")
             - 2 * Bit(low_tf.signal = "SELL")
             - 2 * Bit(ultra_low_tf.death_cross)
             - Bit(low_tf.death_cross)
             - Bit(medium_tf.trend = "BEARISH")
             - 2 * Bit(high_tf.trend = "BEARISH")
             - Bit(medium_tf.signal = "SELL")
             - 2 * Bit(ultra_low_tf.j_overbought)
             - Bit(low_tf.j_overbought)
             + 2 * Bit(high_tf.trend = "BULLISH")
        ELSE 0

\* the fuser testing for a fast SELL vote before a fast BUY vote
RawStrength_SellFirst(r) ==
    LET high_tf == r["4h"]
        medium_tf == r["1h"]
        low_tf == r["15m"]
        ultra_low_tf == r["5m"]
    IN  IF ultra_low_tf.signal = "SELL" \/ low_tf.signal = "SELL"
        THEN 0 - 3 * Bit(ultra_low_tf.signal = "SELL")
             - 2 * Bit(low_tf.signal = "SELL")
             - 2 * Bit(ultra_low_tf.death_cross)
             - Bit(low_tf.death_cross)
             - Bit(medium_tf.trend = "BEARISH")
             - 2 * Bit(high_tf.trend = "BEARISH")
             - Bit(medium_tf.signal = "SELL")
             - (IF ultra_low_tf.j_overbought THEN 2
                ELSE Bit(low_tf.j_overbought))
             + 2 * Bit(high_tf.trend = "BULLISH")
        ELSE IF ultra_low_tf.signal = "BUY" \/ low_tf.signal = "BUY"
        THEN 3 * Bit(ultra_low_tf.signal = "BUY")
             + 2 * Bit(low_tf.signal = "BUY")
             + 2 * Bit(ultra_low_tf.golden_cross)
             + Bit(low_tf.golden_cross)
             + Bit(medium_tf.trend = "BULLISH")
             + 2 * Bit(high_tf.trend = "BULLISH")
             + Bit(medium_tf.signal = "BUY")
             + (IF ultra_low_tf.j_oversold THEN 2
                ELSE Bit(low_tf.j_oversold))
             - 2 * Bit(high_tf.trend = "BEARISH")
        ELSE 0

\* strength accumulated by generate_combined_signal
RawStrength(r) ==
    LET high_tf == r["4h"]
        medium_tf == r["1h"]
        low_tf == r["15m"]
        ultra_low_tf == r["5m"]
    IN  IF ultra_low_tf.signal = "BUY" \/ low_tf.signal = "BUY"
        THEN 3 * Bit(ultra_low_tf.signal = "BUY")
             + 2 * Bit(low_tf.signal = "BUY")
             + 2 * Bit(ultra_low_tf.golden_cross)
             + Bit(low_tf.golden_cross)
             + Bit(medium_tf.trend = "BULLISH")
             + 2 * Bit(high_tf.trend = "BULLISH")
             + Bit(medium_tf.signal = "BUY")
             + (IF ultra_low_tf.j_oversold THEN 2
                ELSE Bit(low_tf.j_oversold))
             - 2 * Bit(high_tf.trend = "BEARISH")
        ELSE IF ultra_low_tf.signal = "SELL" \/ low_tf.signal = "SELL"
        THEN 0 - 3 * Bit(ultra_low_tf.signal = "SELL")
             - 2 * Bit(low_tf.signal = "SELL")
             - 2 * Bit(ultra_low_tf.death_cross)
             - Bit(low_tf.death_cross)
             - Bit(medium_tf.trend = "BEARISH")
             - 2 * Bit(high_tf.trend = "BEARISH")
             - Bit(medium_tf.signal = "SELL")
             - (IF ultra_low_tf.j_overbought THEN 2
                ELSE Bit(low_tf.j_overbought))
             + 2 * Bit(high_tf.trend = "BULLISH")
        ELSE 0

\* a fuser that gives up only when both fast timeframes are undefined
FastUndefined_BothRequired(r) ==
    r["15m"].signal = "UNDEFINED" /\ r["5m"].signal = "UNDEFINED"

\* the two fastest timeframes are required
FastUndefined(r) ==
    r["15m"].signal = "UNDEFINED" \/ r["5m"].signal = "UNDEFINED"

\* the fuser accepting a signal only above the threshold
generate_combined_signal_StrictThreshold(r, market_condition) ==
    IF FastUndefined(r)
    THEN [signal |-> "HOLD", strength |-> 0]
    ELSE LET strength == RawStrength(r)
             signal_threshold ==
                market_conditions[market_condition].signal_strength_threshold
             final_signal ==
                IF strength > signal_threshold THEN "BUY"
                ELSE IF strength < 0 - signal_threshold THEN "SELL"
                ELSE "HOLD"
         IN  [signal |-> IF IsFutures
                         THEN (IF final_signal = "BUY" THEN "LONG"
                               ELSE IF final_signal = "SELL" THEN "SHORT"
                               ELSE final_signal)
                         ELSE final_signal,
              strength |-> Abs(strength)]

\* generate_combined_signal after its regime detection returned
\* market_condition
generate_combined_signal(r, market_condition) ==
    IF FastUndefined(r)
    THEN [signal |-> "HOLD", strength |-> 0]
    ELSE LET strength == RawStrength(r)
             signal_threshold ==
                market_conditions[market_condition].signal_strength_threshold
             final_signal ==
                IF strength >= signal_threshold THEN "BUY"
                ELSE IF strength <= 0 - signal_threshold THEN "SELL"
                ELSE "HOLD"
         IN  [signal |-> IF IsFutures
                         THEN (IF final_signal = "BUY" THEN "LONG"
                               ELSE IF final_signal = "SELL" THEN "SHORT"
                               ELSE final_signal)
                         ELSE final_signal,
              strength |-> Abs(strength)]

\* analyze_multi_timeframe results fed to a cycle
Timeframes == {"4h", "1h", "15m", "5m"}
MultiTf(high_tf, medium_tf, low_tf, ultra_low_tf) ==
    [tf \in Timeframes |->
        IF tf = "4h" THEN high_tf
        ELSE IF tf = "1h" THEN medium_tf
        ELSE IF tf = "15m" THEN low_tf
        ELSE ultra_low_tf]
TfHold(trend) == Tf("HOLD", trend, FALSE, FALSE, FALSE, FALSE)
TfBuy(trend) == Tf("BUY", trend, TRUE, FALSE, FALSE, FALSE)
TfSell(trend) == Tf("SELL", trend, FALSE, TRUE, FALSE, FALSE)
TfScenarios ==
    {\* every timeframe buys, trends bullish: strength 12
     MultiTf(TfBuy("BULLISH"), TfBuy("BULLISH"),
             TfBuy("BULLISH"), TfBuy("BULLISH")),
     \* every timeframe sells, trends bearish: strength -12
     MultiTf(TfSell("BEARISH"), TfSell("BEARISH"),
             TfSell("BEARISH"), TfSell("BEARISH")),
     \* nothing to do
     MultiTf(TfHold("NEUTRAL"), TfHold("NEUTRAL"),
             TfHold("NEUTRAL"), TfHold("NEUTRAL")),
     \* no 5m data
     MultiTf(TfHold("NEUTRAL"), TfHold("NEUTRAL"),
             TfHold("NEUTRAL"), TfUndefined),
     \* fast timeframes buy against bearish 1h and 4h: strength 6
     MultiTf(TfHold("BEARISH"), TfHold("BEARISH"),
             TfBuy("NEUTRAL"), TfBuy("NEUTRAL")),
     \* fast timeframes sell against bullish 1h and 4h: strength -6
     MultiTf(TfHold("BULLISH"), TfHold("BULLISH"),
             TfSell("NEUTRAL"), TfSell("NEUTRAL")),
     \* 5m golden cross alone: strength 5
     MultiTf(TfHold("NEUTRAL"), TfHold("NEUTRAL"),
             TfHold("NEUTRAL"), TfBuy("NEUTRAL")),
     \* 5m death cross alone: strength -5
     MultiTf(TfHold("NEUTRAL"), TfHold("NEUTRAL"),
             TfHold("NEUTRAL"), TfSell("NEUTRAL"))}

\* what analyze_kdj_signals can return as far as the fuser reads it.  A
\* golden cross has K above D and a death cross K below D; J is not both
\* above 80 and below 20; the signal is BUY on a golden cross or on K
\* above D with J oversold, else SELL on a death cross or on K below D
\* with J overbought, else HOLD
FastTfResults ==
    {t \in {Tf(signal, "NEUTRAL", gc, dc, ob, os) :
                signal \in {"BUY", "SELL", "HOLD"},
                gc \in BOOLEAN, dc \in BOOLEAN,
                ob \in BOOLEAN, os \in BOOLEAN} :
        /\ ~(t.golden_cross /\ t.death_cross)
        /\ ~(t.j_overbought /\ t.j_oversold)
        /\ t.golden_cross => t.signal = "BUY"
        /\ t.death_cross => t.signal = "SELL"
        /\ t.signal = "BUY" => t.golden_cross \/ t.j_oversold
        /\ t.signal = "SELL" => t.death_cross \/ t.j_overbought}
    \cup {TfUndefined}
\* of the 1h result the fuser reads signal and trend, of the 4h result
\* the trend
MediumTfResults ==
    {Tf(signal, trend, signal = "BUY", signal = "SELL", FALSE, FALSE) :
        signal \in {"BUY", "SELL", "HOLD"},
        trend \in {"BULLISH", "BEARISH", "NEUTRAL"}}
    \cup {TfUndefined}
HighTfResults ==
    {TfHold(trend) : trend \in {"BULLISH", "BEARISH", "NEUTRAL"}}
    \cup {TfUndefined}
\* the results analyze_multi_timeframe can hand to the fuser
MultiTfResults ==
    {MultiTf(high_tf, medium_tf, low_tf, ultra_low_tf) :
        high_tf \in HighTfResults, medium_tf \in MediumTfResults,
        low_tf \in FastTfResults, ultra_low_tf \in FastTfResults}

\* ---------------------------------------------------- profit and stops
\* fee_impact = trading_fee_rate * 2 * 100, in 1/25 percent
\* (spot 0.2% = 5/25, futures 0.08% = 2/25)
FeeImpact25 == IF IsFutures THEN 2 ELSE 5

\* calculate_profit_percentage(current_price) = ProfitNum / ProfitDen
ProfitDen(b) == IF b.position_price = 0 THEN 1 ELSE 25 * b.position_price
ProfitNum(b, current_price) ==
    IF ~b.in_position \/ b.position_price = 0
    THEN 0
    ELSE IF ~IsFutures \/ b.position_side = "LONG"
    THEN (current_price - b.position_price) * 2500
            * (IF IsFutures THEN leverage ELSE 1)
         - FeeImpact25 * b.position_price
    ELSE IF b.position_side = "SHORT"
    THEN (b.position_price - current_price) * 2500 * leverage
         - FeeImpact25 * b.position_price
    ELSE 0

\* prices of the stop computations are numerators over StopDen
StopDen(b) == 5000 * b.position_price

\* a stop price whose trailing stop lies half the profit above the
\* current price
LongStopNum_AbovePrice(b, current_price, stop_loss_x2) ==
    LET profit == ProfitNum(b, current_price)
        pp == b.position_price
        trailing_stop ==
            IF profit > 0 /\ profit <= 25 * pp * stop_loss_x2
            THEN current_price * (5000 * pp + profit)
            ELSE current_price * 25 * pp * (200 - stop_loss_x2)
    IN  Max(pp * pp * 25 * (200 - stop_loss_x2), trailing_stop)

\* stop_price of an open long: max(entry floor, trailing stop)
LongStopNum(b, current_price, stop_loss_x2) ==
    LET profit == ProfitNum(b, current_price)
        pp == b.position_price
        trailing_stop ==
            IF profit > 0 /\ profit <= 25 * pp * stop_loss_x2
            THEN current_price * (5000 * pp - profit)
            ELSE current_price * 25 * pp * (200 - stop_loss_x2)
    IN  Max(pp * pp * 25 * (200 - stop_loss_x2), trailing_stop)

\* stop_price of an open short: min(entry ceiling, trailing stop)
ShortStopNum(b, current_price, stop_loss_x2) ==
    LET profit == ProfitNum(b, current_price)
        pp == b.position_price
        trailing_stop ==
            IF profit > 0 /\ profit <= 25 * pp * stop_loss_x2
            THEN current_price * (5000 * pp + profit)
            ELSE current_price * 25 * pp * (200 + stop_loss_x2)
    IN  Min(pp * pp * 25 * (200 + stop_loss_x2), trailing_stop)

\* entry sizing without the cap at 75% of the balance
PositionValue_NoCap(balance, stop_loss_x2) ==
    LET lev == IF IsFutures THEN leverage ELSE 1
        position_value == (balance * 10 * lev) \div stop_loss_x2
    IN  RaiseToMinimum(position_value)

\* entry sizing that risks 0.5% of the account per trade
PositionValue_LowRisk(balance, stop_loss_x2) ==
    LET lev == IF IsFutures THEN leverage ELSE 1
        position_value == (balance * lev) \div stop_loss_x2
        max_investment == (balance * 3) \div 4
    IN  RaiseToMinimum(IF position_value > max_investment
                       THEN max_investment
                       ELSE position_value)

\* value (price * position_size) of the entry a cycle sizes
PositionValue(balance, stop_loss_x2) ==
    LET lev == IF IsFutures THEN leverage ELSE 1
        position_value == (balance * 10 * lev) \div stop_loss_x2
        max_investment == (balance * 3) \div 4
    IN  RaiseToMinimum(IF position_value > max_investment
                       THEN max_investment
                       ELSE position_value)

\* ------------------------------------------ execute_trading_strategy()
\* result of one cycle: the bot after it, the rule it ended in, its
\* current_price and market_condition, the operation it called with that
\* operation's result, the stop_price it compared (NoStop if none), the
\* quote balance it sized an entry on and the value of the position_size
\* it handed to buy or short (0 if it sized none), the
\* attempts of the pipeline it made and whether it ended in an exception
\* handed to its caller
CycleResult(b, rule, price, regime, called, r, stop) ==
    [b |-> b, rule |-> rule, price |-> price, regime |-> regime,
     called |-> called, ret |-> r.ret, fault |-> r.fault,
     submitted |-> r.submitted, quantity |-> r.quantity, stop |-> stop,
     balance |-> 0, position_value |-> 0,
     attempts |-> 1, raised |-> FALSE]
NoCall(b) == Result(b, FALSE, "none", 0)

CycleSell(b, price, regime, rule, stop) ==
    {CycleResult(r.b, rule, price, regime, "sell", r, stop) :
        r \in sell(b, price)}
CycleCloseShort(b, price, regime, rule, stop) ==
    {CycleResult(r.b, rule, price, regime, "close_short", r, stop) :
        r \in close_short(b, price)}

\* exit rules of an open long with the emergency rule firing at the
\* threshold itself
LongExit_AtThreshold(b, price, regime, sig) ==
    LET prm == market_conditions[regime]
        profit == ProfitNum(b, price)
        den == ProfitDen(b)
        stop == LongStopNum(b, price, prm.stop_loss_x2)
    IN  IF profit <= (0 - prm.stop_loss_x2) * den
        THEN CycleSell(b, price, regime, "emergency", NoStop)
        ELSE IF 2 * profit >= prm.take_profit_x2 * den
        THEN CycleSell(b, price, regime, "take_profit", NoStop)
        ELSE IF sig.signal \in {"SELL", "SHORT"}
                /\ sig.strength >= prm.signal_strength_threshold
        THEN CycleSell(b, price, regime, "signal_exit", NoStop)
        ELSE IF price * StopDen(b) <= stop
        THEN CycleSell(b, price, regime, "trailing_stop", stop)
        ELSE {CycleResult(b, "hold", price, regime, "none",
                          NoCall(b), stop)}

\* exit rules of an open long (spot position or futures LONG)
LongExit(b, price, regime, sig) ==
    LET prm == market_conditions[regime]
        profit == ProfitNum(b, price)
        den == ProfitDen(b)
        stop == LongStopNum(b, price, prm.stop_loss_x2)
    IN  IF profit < (0 - prm.stop_loss_x2) * den
        THEN CycleSell(b, price, regime, "emergency", NoStop)
        ELSE IF 2 * profit >= prm.take_profit_x2 * den
        THEN CycleSell(b, price, regime, "take_profit", NoStop)
        ELSE IF sig.signal \in {"SELL", "SHORT"}
                /\ sig.strength >= prm.signal_strength_threshold
        THEN CycleSell(b, price, regime, "signal_exit", NoStop)
        ELSE IF price * StopDen(b) <= stop
        THEN CycleSell(b, price, regime, "trailing_stop", stop)
        ELSE {CycleResult(b, "hold", price, regime, "none",
                          NoCall(b), stop)}

\* exit rules of an open SHORT without the take profit
ShortExit_NoTakeProfit(b, price, regime, sig) ==
    LET prm == market_conditions[regime]
        profit == ProfitNum(b, price)
        den == ProfitDen(b)
        stop == ShortStopNum(b, price, prm.stop_loss_x2)
    IN  IF profit < (0 - prm.stop_loss_x2) * den
        THEN CycleCloseShort(b, price, regime, "emergency", NoStop)
        ELSE IF sig.signal \in {"BUY", "LONG"}
                /\ sig.strength >= prm.signal_strength_threshold
        THEN CycleCloseShort(b, price, regime, "signal_exit", NoStop)
        ELSE IF price * StopDen(b) >= stop
        THEN CycleCloseShort(b, price, regime, "trailing_stop", stop)
        ELSE {CycleResult(b, "hold", price, regime, "none",
                          NoCall(b), stop)}

\* exit rules of an open futures SHORT
ShortExit(b, price, regime, sig) ==
    LET prm == market_conditions[regime]
        profit == ProfitNum(b, price)
        den == ProfitDen(b)
        stop == ShortStopNum(b, price, prm.stop_loss_x2)
    IN  IF profit < (0 - prm.stop_loss_x2) * den
        THEN CycleCloseShort(b, price, regime, "emergency", NoStop)
        ELSE IF 2 * profit >= prm.take_profit_x2 * den
        THEN CycleCloseShort(b, price, regime, "take_profit", NoStop)
        ELSE IF sig.signal \in {"BUY", "LONG"}
                /\ sig.strength >= prm.signal_strength_threshold
        THEN CycleCloseShort(b, price, regime, "signal_exit", NoStop)
        ELSE IF price * StopDen(b) >= stop
        THEN CycleCloseShort(b, price, regime, "trailing_stop", stop)
        ELSE {CycleResult(b, "hold", price, regime, "none",
                          NoCall(b), stop)}

\* the in-position branch of the cycle
InPosition(b, price, regime, sig) ==
    IF ~IsFutures
    THEN UNION {
            IF real_balance < DustThreshold /\ b.in_position
            THEN {CycleResult(
                    save_state([b EXCEPT !.in_position = FALSE,
                                         !.position_side = "None"]),
                    "balance_correction", price, regime, "none",
                    NoCall(b), NoStop)}
            ELSE LongExit(b, price, regime, sig)
            : real_balance \in BaseBalanceResults(b)}
    ELSE IF b.position_side = "LONG"
    THEN LongExit(b, price, regime, sig)
    ELSE IF b.position_side = "SHORT"
    THEN ShortExit(b, price, regime, sig)
    ELSE {CycleResult(b, "hold", price, regime, "none", NoCall(b), NoStop)}

\* the not-in-position branch without the veto of ranging markets
NotInPosition_NoRangingVeto(b, price, regime, sig, high_tf_trend, medium_tf_trend) ==
    LET prm == market_conditions[regime]
        Skip(rule) == {CycleResult(b, rule, price, regime, "none",
                                   NoCall(b), NoStop)}
    IN  IF sig.signal \in {"BUY", "LONG"}
           /\ sig.strength >= prm.signal_strength_threshold
        THEN IF regime = "TRENDING" /\ high_tf_trend = "BEARISH"
                /\ medium_tf_trend = "BEARISH"
             THEN Skip("trend_veto")
             ELSE UNION {
                    {[CycleResult(r.b, "entry_long", price, regime, "buy",
                                  r, NoStop)
                        EXCEPT !.balance = balance,
                               !.position_value =
                                PositionValue(balance, prm.stop_loss_x2)] :
                        r \in buy(b, price,
                                  PositionValue(balance, prm.stop_loss_x2))}
                    : balance \in QuoteBalanceResults}
        ELSE IF sig.signal = "SHORT"
                /\ sig.strength >= prm.signal_strength_threshold
                /\ IsFutures
        THEN IF regime = "TRENDING" /\ high_tf_trend = "BULLISH"
                /\ medium_tf_trend = "BULLISH"
             THEN Skip("trend_veto")
             ELSE UNION {
                    {[CycleResult(r.b, "entry_short", price, regime, "short",
                                  r, NoStop)
                        EXCEPT !.balance = balance,
                               !.position_value =
                                PositionValue(balance, prm.stop_loss_x2)] :
                        r \in short(b, price,
                                    PositionValue(balance, prm.stop_loss_x2))}
                    : balance \in QuoteBalanceResults}
        ELSE Skip("no_signal")

\* the not-in-position branch: sizing, entry signals and trend veto
NotInPosition(b, price, regime, sig, high_tf_trend, medium_tf_trend) ==
    LET prm == market_conditions[regime]
        Skip(rule) == {CycleResult(b, rule, price, regime, "none",
                                   NoCall(b), NoStop)}
    IN  IF sig.signal \in {"BUY", "LONG"}
           /\ sig.strength >= prm.signal_strength_threshold
        THEN IF regime = "TRENDING" /\ high_tf_trend = "BEARISH"
                /\ medium_tf_trend = "BEARISH"
             THEN Skip("trend_veto")
             ELSE IF regime = "RANGING" /\ medium_tf_trend = "BEARISH"
             THEN Skip("trend_veto")
             ELSE UNION {
                    {[CycleResult(r.b, "entry_long", price, regime, "buy",
                                  r, NoStop)
                        EXCEPT !.balance = balance,
                               !.position_value =
                                PositionValue(balance, prm.stop_loss_x2)] :
                        r \in buy(b, price,
                                  PositionValue(balance, prm.stop_loss_x2))}
                    : balance \in QuoteBalanceResults}
        ELSE IF sig.signal = "SHORT"
                /\ sig.strength >= prm.signal_strength_threshold
                /\ IsFutures
        THEN IF regime = "TRENDING" /\ high_tf_trend = "BULLISH"
                /\ medium_tf_trend = "BULLISH"
             THEN Skip("trend_veto")
             ELSE IF regime = "RANGING" /\ medium_tf_trend = "BULLISH"
             THEN Skip("trend_veto")
             ELSE UNION {
                    {[CycleResult(r.b, "entry_short", price, regime, "short",
                                  r, NoStop)
                        EXCEPT !.balance = balance,
                               !.position_value =
                                PositionValue(balance, prm.stop_loss_x2)] :
                        r \in short(b, price,
                                    PositionValue(balance, prm.stop_loss_x2))}
                    : balance \in QuoteBalanceResults}
        ELSE Skip("no_signal")

\* the cycle from the position check on
Decide(b, price, regime, sig, high_tf_trend, medium_tf_trend) ==
    IF b.in_position
    THEN InPosition(b, price, regime, sig)
    ELSE NotInPosition(b, price, regime, sig,
                       high_tf_trend, medium_tf_trend)

\* generate_combined_signal within the cycle: the fuser detects the
\* regime again unless a fast timeframe is undefined; the bot after it,
\* the fused signal and the market_condition it reports ("none" when the
\* result has no such key)
Fused(b, regime, results) ==
    IF FastUndefined(results)
    THEN {[b |-> b, sig |-> generate_combined_signal(results, regime),
           market_condition |-> "none"]}
    ELSE {LET d == detect_market_condition(b, d2)
          IN  [b |-> d.b,
               sig |-> generate_combined_signal(results, d.condition),
               market_condition |-> d.condition]
          : d2 \in DetectOutcomes}

\* what the position decision of a cycle can be given: the bot, the
\* market_condition of the first detection, the fused signal and the
\* 4h and 1h trends
DecisionInputs(b) ==
    UNION {
        UNION {
            {[b |-> f.b, regime |-> d.condition, sig |-> f.sig,
              high_tf_trend |-> results["4h"].trend,
              medium_tf_trend |-> results["1h"].trend]
             : f \in Fused(d.b, d.condition, results)}
            : results \in TfScenarios}
        : d \in {detect_market_condition(b, d1) : d1 \in DetectOutcomes}}

\* one attempt of the pipeline after the price was fetched, when it runs
\* to a return or to the end of the loop body: the analysis raises after
\* the first detection and the cycle returns, or the pipeline runs to the
\* position decision
AfterPrice(b, price) ==
    (IF scenario \in {"data", "step_errors"}
     THEN {LET d == detect_market_condition(b, d1)
           IN  CycleResult(d.b, "analysis_error", price, d.condition,
                           "none", NoCall(d.b), NoStop)
           : d1 \in DetectOutcomes}
     ELSE {})
    \cup
    UNION {Decide(i.b, price, i.regime, i.sig,
                  i.high_tf_trend, i.medium_tf_trend)
           : i \in DecisionInputs(b)}

\* the bot when the pipeline raises after the price fetch and outside the
\* handlers of detection and analysis: in the fuser, in the logging or in
\* the position decision before an operation is called (the operations
\* catch their own exceptions)
RaisedAt(b) == {i.b : i \in DecisionInputs(b)}

\* what a handler of the retry loop leaves: the bots the next iteration
\* can start from, the results the cycle can end with
Again(b) == [again |-> {b}, ended |-> {}]
Ended(r) == [again |-> {}, ended |-> {r}]

\* the handler of the price fetch giving one attempt more
PriceRaised_RetriesOnceMore(b, retry) ==
    IF retry < MaxCycleRetries
    THEN Again(b)
    ELSE Ended([CycleResult(b, "no_price", 0, b.current_market_condition,
                            "none", NoCall(b), NoStop)
                EXCEPT !.attempts = retry + 1])

\* the handler of the price fetch: sleep and next attempt, or return after
\* the last one
PriceRaised(b, retry) ==
    IF retry < MaxCycleRetries - 1
    THEN Again(b)
    ELSE Ended([CycleResult(b, "no_price", 0, b.current_market_condition,
                            "none", NoCall(b), NoStop)
                EXCEPT !.attempts = retry + 1])

\* the cycle with no handler around the pipeline: the exception leaves
\* execute_trading_strategy
PipelineRaised_Propagates(b, retry) ==
    Ended([CycleResult(b, "raised", 0, b.current_market_condition,
                       "none", NoCall(b), NoStop)
           EXCEPT !.attempts = retry + 1, !.raised = TRUE])

\* the outer handler of the loop body: the exception is logged, then sleep
\* and next attempt, or the loop ends after the last one
PipelineRaised(b, retry) ==
    IF retry < MaxCycleRetries - 1
    THEN Again(b)
    ELSE Ended([CycleResult(b, "max_retries", 0,
                            b.current_market_condition,
                            "none", NoCall(b), NoStop)
                EXCEPT !.attempts = retry + 1])

\* iteration `retry` of the retry loop, entered with one of `bots`, and
\* the iterations after it
RECURSIVE Attempt(_, _)
Attempt(bots, retry) ==
    LET handled ==
            IF scenario = "step_errors"
            THEN {PriceRaised(b, retry) : b \in bots}
                 \cup {PipelineRaised(x, retry) :
                        x \in UNION {RaisedAt(b) : b \in bots}}
            ELSE {}
        again == UNION {h.again : h \in handled}
    IN  UNION {h.ended : h \in handled}
        \cup
        {[r EXCEPT !.attempts = retry + 1] :
            r \in UNION {AfterPrice(b, price) :
                            b \in bots, price \in Prices}}
        \cup
        (IF again = {} THEN {} ELSE Attempt(again, retry + 1))

\* one call of execute_trading_strategy
execute_trading_strategy(b) == Attempt({b}, 0)

\* ----------------------------------------------------------- kdj_params
\* the parameters the bot is constructed with
DefaultKdjParams ==
    [tf \in Timeframes |->
        IF tf = "4h" THEN <<21, 5, 5>>
        ELSE IF tf = "1h" THEN <<14, 3, 3>>
        ELSE IF tf = "15m" THEN <<9, 3, 3>>
        ELSE <<7, 3, 3>>]

\* result of a parameter command: the parameters after it and what it
\* returned
KdjResult(params, ret) == [params |-> params, ret |-> ret]

\* set_custom_kdj_params without the check of the smoothing values
set_custom_kdj_params_NoSmoothCheck(params, timeframe, k_period, k_smooth, d_smooth) ==
    IF timeframe \notin {"5m", "15m", "1h", "4h"}
    THEN KdjResult(params, FALSE)
    ELSE IF k_period < 3 \/ k_period > 50
    THEN KdjResult(params, FALSE)
    ELSE KdjResult([params EXCEPT ![timeframe] =
                        <<k_period, k_smooth, d_smooth>>], TRUE)

\* TradingStrategy.set_custom_kdj_params
set_custom_kdj_params(params, timeframe, k_period, k_smooth, d_smooth) ==
    IF timeframe \notin {"5m", "15m", "1h", "4h"}
    THEN KdjResult(params, FALSE)
    ELSE IF k_period < 3 \/ k_period > 50
    THEN KdjResult(params, FALSE)
    ELSE IF k_smooth < 1 \/ k_smooth > 10 \/ d_smooth < 1 \/ d_smooth > 10
    THEN KdjResult(params, FALSE)
    ELSE KdjResult([params EXCEPT ![timeframe] =
                        <<k_period, k_smooth, d_smooth>>], TRUE)

\* four calls of set_custom_kdj_params in the order 4h, 1h, 15m, 5m
SetFour(params, high, medium, low, ultra_low) ==
    LET Set(x, tf, t) == set_custom_kdj_params(x, tf, t[1], t[2], t[3]).params
    IN  Set(Set(Set(Set(params, "4h", high), "1h", medium), "15m", low),
            "5m", ultra_low)

\* TradingStrategy.optimize_parameters_for_market_condition
optimize_parameters_for_market_condition(params, market_condition) ==
    IF market_condition = "TRENDING"
    THEN KdjResult(SetFour(params, <<21, 5, 5>>, <<14, 3, 3>>, <<9, 3, 3>>,
                           <<7, 3, 3>>), TRUE)
    ELSE IF market_condition = "RANGING"
    THEN KdjResult(SetFour(params, <<14, 3, 3>>, <<9, 3, 3>>, <<7, 2, 2>>,
                           <<5, 2, 2>>), TRUE)
    ELSE KdjResult(params, FALSE)

\* "Reset to Default Parameters" of the configuration menu
reset_kdj_params(params) ==
    KdjResult(SetFour(params, <<21, 5, 5>>, <<14, 3, 3>>, <<9, 3, 3>>,
                      <<7, 3, 3>>), TRUE)

\* ----------------------------------------------------------------- state
\* after construction: flat, empty ledger, the regime of the state file;
\* the exchange holds nothing of the base asset
LoadedWith(market_condition, balances) ==
    /\ trading_mode \in {"SPOT", "FUTURES"}
    /\ leverage \in (IF trading_mode = "FUTURES" THEN Leverages ELSE {1})
    /\ in_position = FALSE
    /\ position_side = "None"
    /\ position_price = 0
    /\ position_amount = 0
    /\ last_action = "None"
    /\ current_market_condition = market_condition
    /\ trades_history = <<>>
    /\ saved_state = [in_position |-> FALSE,
                      position_side |-> "None",
                      position_price |-> 0,
                      position_amount |-> 0,
                      last_action |-> "None",
                      leverage |-> leverage,
                      market_condition |-> market_condition]
    /\ trades_file = <<>>
    /\ lot_step \in StepSizes
    /\ quote_balance \in balances
    /\ kdj_params = DefaultKdjParams
    /\ exchange_held = 0
    /\ last_op = "init"
    /\ last_ret = FALSE
    /\ last_fault = "none"
    /\ orders_submitted = 0
    /\ exit_quantity = 0
    /\ cycle_rule = "none"
    /\ cycle_price = 0
    /\ cycle_regime = "TRENDING"
    /\ cycle_attempts = 0
    /\ run_state = "running"

\* after construction, on an account with one of the usual balances
Loaded(market_condition) == LoadedWith(market_condition, QuoteBalances)

\* after construction without a state file: the default regime
Constructed == Loaded("TRENDING")

\* no function is under study
NoFunction == fn_input = {} /\ fn_output = {}

Init == scenario \in Scenarios /\ Constructed /\ NoFunction

\* the bot fields of a result become the next state
SetBot(b) ==
    /\ in_position' = b.in_position
    /\ position_side' = b.position_side
    /\ position_price' = b.position_price
    /\ position_amount' = b.position_amount
    /\ last_action' = b.last_action
    /\ current_market_condition' = b.current_market_condition
    /\ trades_history' = b.trades_history
    /\ saved_state' = b.saved_state
    /\ trades_file' = b.trades_file
    /\ exchange_held' = b.exchange_held
    /\ UNCHANGED <<scenario, trading_mode, leverage, lot_step, quote_balance, kdj_params>>

\* a direct call of one of the four order operations
Called(op, r) ==
    /\ Fits(r)
    /\ SetBot(r.b)
    /\ last_op' = op
    /\ last_ret' = r.ret
    /\ last_fault' = r.fault
    /\ orders_submitted' = r.submitted
    /\ exit_quantity' = r.quantity
    /\ cycle_rule' = "none"
    /\ cycle_price' = 0
    /\ cycle_regime' = "TRENDING"
    /\ cycle_attempts' = 0
    /\ fn_output' = {}
    /\ UNCHANGED <<run_state, fn_input>>

Buy ==
    \E price \in Prices, val \in Notionals :
        \E r \in buy(Bot, price, val) : Called("buy", r)

Sell ==
    \E price \in Prices :
        \E r \in sell(Bot, price) : Called("sell", r)

Short ==
    \E price \in Prices, val \in Notionals :
        \E r \in short(Bot, price, val) : Called("short", r)

CloseShort ==
    \E price \in Prices :
        \E r \in close_short(Bot, price) : Called("close_short", r)

\* what is observed of a cycle
CycleObserved(r) ==
    /\ Fits(r)
    /\ last_op' = r.called
    /\ last_ret' = r.ret
    /\ last_fault' = r.fault
    /\ orders_submitted' = r.submitted
    /\ exit_quantity' = r.quantity
    /\ cycle_rule' = r.rule
    /\ cycle_price' = IF in_position THEN r.price ELSE 0
    /\ cycle_regime' = IF in_position THEN r.regime ELSE "TRENDING"
    /\ cycle_attempts' = r.attempts

\* one evaluation cycle, run to completion
Cycle ==
    \E r \in execute_trading_strategy(Bot) :
        /\ CycleObserved(r)
        /\ SetBot(r.b)
        /\ fn_output' = {}
        /\ UNCHANGED <<run_state, fn_input>>

\* the account changes outside the bot: the base holding is withdrawn or
\* the open position liquidated
ExternalChange ==
    /\ scenario = "drift"
    /\ exchange_held # 0
    /\ exchange_held' = 0
    /\ last_op' = "external"
    /\ last_ret' = FALSE
    /\ last_fault' = "none"
    /\ orders_submitted' = 0
    /\ exit_quantity' = 0
    /\ cycle_rule' = "none"
    /\ cycle_price' = 0
    /\ cycle_regime' = "TRENDING"
    /\ cycle_attempts' = 0
    /\ fn_output' = {}
    /\ UNCHANGED <<scenario, trading_mode, leverage, in_position, position_side,
                   position_price, position_amount, last_action,
                   current_market_condition, trades_history, saved_state,
                   trades_file, lot_step, quote_balance, kdj_params, run_state, fn_input>>

Next ==
    \/ Buy
    \/ Sell
    \/ Short
    \/ CloseShort
    \/ Cycle
    \/ ExternalChange

Spec == Init /\ [][Next]_vars

\* ------------------------------------------------- TradingStrategy.run()
\* the bot as it is run: the loop of run() calls execute_trading_strategy
\* and sleeps, until the operator interrupts it or an exception leaves the
\* cycle; both handlers save the state and end the loop
RunInit == scenario \in RunScenarios /\ Constructed /\ NoFunction

\* one iteration of the loop
Tick ==
    /\ run_state = "running"
    /\ \E r \in execute_trading_strategy(Bot) :
        /\ CycleObserved(r)
        /\ SetBot(IF r.raised
                  THEN save_trades_history(save_state(r.b))
                  ELSE r.b)
        /\ run_state' = IF r.raised THEN "failed" ELSE "running"
        /\ UNCHANGED <<fn_input, fn_output>>

\* KeyboardInterrupt, taken while the loop sleeps between two cycles
Interrupt ==
    /\ run_state = "running"
    /\ run_state' = "interrupted"
    /\ SetBot(save_trades_history(save_state(Bot)))
    /\ last_op' = "interrupt"
    /\ last_ret' = FALSE
    /\ last_fault' = "none"
    /\ orders_submitted' = 0
    /\ exit_quantity' = 0
    /\ cycle_rule' = "none"
    /\ cycle_price' = 0
    /\ cycle_regime' = "TRENDING"
    /\ cycle_attempts' = 0
    /\ UNCHANGED <<fn_input, fn_output>>

RunNext ==
    \/ Tick
    \/ Interrupt
    \/ ExternalChange

RunSpec == RunInit /\ [][RunNext]_vars

\* ------------------------------------------------------------ properties
\* C1: at every observation point, in_position = false implies that
\* position_side is null
C1_SideNullWhenFlat == ~in_position => position_side = "None"

\* C2: in every reachable state, in_position = false implies that the
\* tracked quantity position_amount is 0
C2_AmountZeroWhenFlat == ~in_position => position_amount = 0

\* C3: no step takes an open LONG to an open SHORT or an open SHORT to an
\* open LONG; buy() called while a SHORT is open and short() called while
\* a LONG is open return failure, send no order request and leave the
\* position state and the ledger unchanged
C3_NoDirectReversal ==
    [][/\ (in_position /\ position_side = "LONG")
            => ~(in_position' /\ position_side' = "SHORT")
       /\ (in_position /\ position_side = "SHORT")
            => ~(in_position' /\ position_side' = "LONG")
       /\ (last_op' = "buy" /\ in_position /\ position_side = "SHORT")
            => /\ ~last_ret'
               /\ orders_submitted' = 0
               /\ UNCHANGED <<in_position, position_side, position_price,
                              position_amount, last_action,
                              trades_history>>
       /\ (last_op' = "short" /\ in_position /\ position_side = "LONG")
            => /\ ~last_ret'
               /\ orders_submitted' = 0
               /\ UNCHANGED <<in_position, position_side, position_price,
                              position_amount, last_action,
                              trades_history>>
      ]_vars

\* buy() was called while a SHORT was open and refused
C3_BuyRefusedWhileShort ==
    /\ last_op = "buy"
    /\ cycle_rule = "none"
    /\ ~last_ret
    /\ orders_submitted = 0
    /\ in_position
    /\ position_side = "SHORT"

\* C4: one evaluation cycle, its retries included, sends at most one
\* order request; it sends an entry order only when it starts FLAT and an
\* exit order only when it starts in position, and a cycle that called an
\* exit operation records no entry
C4_OneOrderPerCycle ==
    [][cycle_rule' # "none"
        => /\ orders_submitted' <= 1
           /\ last_op' \in {"buy", "short"} => ~in_position
           /\ last_op' \in {"sell", "close_short"} => in_position
           /\ last_op' \in {"sell", "close_short"}
                => (last_action' = last_action
                    \/ last_action' \notin {"buy", "long", "short"})
      ]_vars

\* C5 as stated: a cycle that begins with an open long whose profit is at
\* or below -2 x stop_loss_percentage of the cycle's regime, and that
\* completes its analysis, calls sell before any other rule ends it
C5_EmergencyAtOrBelow ==
    [][(/\ in_position
        /\ (trading_mode = "SPOT" \/ position_side = "LONG")
        /\ cycle_rule' \notin {"none", "no_price", "analysis_error"}
        /\ ProfitNum(Bot, cycle_price')
             <= (0 - market_conditions[cycle_regime'].stop_loss_x2)
                  * ProfitDen(Bot))
        => last_op' = "sell"
      ]_vars

\* C5 amended: a cycle that begins with an open long, completes its
\* analysis and is not ended by the spot balance correction ends in the
\* emergency rule, calling sell whatever the fused signal, if and only if
\* the profit is strictly below -2 x stop_loss_percentage of the cycle's
\* regime
C5_EmergencyStrictlyBelow ==
    [][(/\ in_position
        /\ (trading_mode = "SPOT" \/ position_side = "LONG")
        /\ cycle_rule' \notin {"none", "no_price", "analysis_error",
                               "balance_correction"})
        => /\ (cycle_rule' = "emergency")
                <=> (ProfitNum(Bot, cycle_price')
                       < (0 - market_conditions[cycle_regime'].stop_loss_x2)
                           * ProfitDen(Bot))
           /\ cycle_rule' = "emergency" => last_op' = "sell"
      ]_vars

\* a cycle ended in the emergency rule and its sell closed the position
C5_EmergencySold ==
    /\ cycle_rule = "emergency"
    /\ last_op = "sell"
    /\ last_ret
    /\ ~in_position

\* C6: while one position stays open, the stop price two successive
\* cycles compare the current price against never decreases for a long
\* and never increases for a SHORT
C6_StopOnlyTightens ==
    [][(/\ in_position
        /\ cycle_rule = "hold"
        /\ cycle_rule' \in {"hold", "trailing_stop"})
        => IF trading_mode = "SPOT" \/ position_side = "LONG"
           THEN LongStopNum(Bot, cycle_price',
                    market_conditions[cycle_regime'].stop_loss_x2)
                >= LongStopNum(Bot, cycle_price,
                    market_conditions[cycle_regime].stop_loss_x2)
           ELSE ShortStopNum(Bot, cycle_price',
                    market_conditions[cycle_regime'].stop_loss_x2)
                <= ShortStopNum(Bot, cycle_price,
                    market_conditions[cycle_regime].stop_loss_x2)
      ]_vars

\* C7: when the order request of buy, sell, short or close_short ends in
\* an exception other than an insufficient-balance rejection, the
\* operation returns failure and in_position, position_side,
\* position_price, position_amount, last_action and the ledger are
\* unchanged
C7_FailedOrderKeepsState ==
    [][last_fault' \in {"api_other", "error"}
        => /\ ~last_ret'
           /\ UNCHANGED <<in_position, position_side, position_price,
                          position_amount, last_action, trades_history>>
      ]_vars

\* the order request of a sell raised on every attempt and the position
\* is still open
C7_SellRaised ==
    /\ last_op = "sell"
    /\ last_fault = "api_other"
    /\ orders_submitted = MaxApiRetries
    /\ ~last_ret
    /\ in_position

\* C8: when the exit order of sell or close_short is rejected for
\* insufficient balance, the operation returns failure, the position
\* state is FLAT (in_position false, side null) and this is persisted
C8_InsufficientBalanceForcesFlat ==
    [][(last_fault' = "api_insufficient"
        /\ last_op' \in {"sell", "close_short"})
        => /\ ~last_ret'
           /\ ~in_position'
           /\ position_side' = "None"
           /\ ~saved_state'.in_position
           /\ saved_state'.position_side = "None"
      ]_vars

\* C9: after a filled entry order (spot buy, futures long, futures short)
\* the tracked quantity is not left more than 1% above the holding the
\* exchange has
C9_ReconciledAfterFill ==
    (last_op \in {"buy", "short"} /\ last_ret)
        => ~((position_amount - exchange_held) * 100 > position_amount)

\* C10: a cycle that begins in position while the exchange holds less
\* than 0.0001 of the base asset (or of the position), and completes its
\* analysis, forces the state to FLAT, persists it, sends no order
\* request and records no trade
C10_StaleStateHealed ==
    [][(/\ in_position
        /\ exchange_held < DustThreshold
        /\ cycle_rule' \notin {"none", "no_price", "analysis_error"})
        => /\ ~in_position'
           /\ position_side' = "None"
           /\ ~saved_state'.in_position
           /\ orders_submitted' = 0
           /\ trades_history' = trades_history
      ]_vars

\* ------------------------------------------------------- safe_api_call()
\* safe_api_call applied once to every behaviour of the wrapped function
ApiInit ==
    /\ scenario = "order_errors"
    /\ Constructed
    /\ fn_input \in CallBehaviours
    /\ fn_output = {}

ApiCall ==
    /\ fn_output = {}
    /\ fn_output' = {safe_api_call(fn_input)}
    /\ UNCHANGED <<scenario, trading_mode, leverage, in_position,
                   position_side, position_price, position_amount,
                   last_action, current_market_condition, trades_history,
                   saved_state, trades_file, lot_step, quote_balance, kdj_params, exchange_held,
                   last_op, last_ret,
                   last_fault, orders_submitted, exit_quantity, cycle_rule, cycle_price,
                   cycle_regime, cycle_attempts, run_state, fn_input>>

ApiNext == ApiCall

ApiSpec == ApiInit /\ [][ApiNext]_vars

\* ---------------------------------------------- generate_combined_signal()
\* the fuser applied once to every multi-timeframe result, by a bot that
\* holds either regime, whatever its regime detection comes to
FuserInit ==
    /\ scenario = "data"
    /\ \E market_condition \in {"TRENDING", "RANGING"} :
            Loaded(market_condition)
    /\ fn_input \in MultiTfResults
    /\ fn_output = {}

Fuse ==
    /\ fn_output = {}
    /\ \E f \in Fused(Bot, current_market_condition, fn_input) :
        /\ fn_output' = {[signal |-> f.sig.signal,
                          strength |-> f.sig.strength,
                          raw_strength |->
                              IF FastUndefined(fn_input)
                              THEN "none"
                              ELSE RawStrength(fn_input),
                          market_condition |-> f.market_condition]}
        /\ in_position' = f.b.in_position
        /\ position_side' = f.b.position_side
        /\ position_price' = f.b.position_price
        /\ position_amount' = f.b.position_amount
        /\ last_action' = f.b.last_action
        /\ current_market_condition' = f.b.current_market_condition
        /\ trades_history' = f.b.trades_history
        /\ saved_state' = f.b.saved_state
        /\ trades_file' = f.b.trades_file
        /\ exchange_held' = f.b.exchange_held
    /\ UNCHANGED <<scenario, trading_mode, leverage, lot_step, quote_balance, kdj_params, last_op,
                   last_ret, last_fault, orders_submitted, exit_quantity, cycle_rule,
                   cycle_price, cycle_regime, cycle_attempts, run_state,
                   fn_input>>

FuserNext == Fuse

FuserSpec == FuserInit /\ [][FuserNext]_vars

\* ------------------------------------------- entry decision of the cycle
\* the not-in-position branch applied once to every fused signal, regime
\* and pair of 1h/4h trends, by a flat bot
EntryInputs ==
    [price : Prices,
     regime : {"TRENDING", "RANGING"},
     sig : [signal : IF IsFutures
                     THEN {"LONG", "SHORT", "HOLD"}
                     ELSE {"BUY", "SELL", "HOLD"},
            strength : 0..14],
     high_tf_trend : {"BULLISH", "BEARISH", "NEUTRAL", "UNDEFINED"},
     medium_tf_trend : {"BULLISH", "BEARISH", "NEUTRAL", "UNDEFINED"}]

EntryInit ==
    /\ scenario = "order_errors"
    /\ Constructed
    /\ fn_input \in EntryInputs
    /\ fn_output = {}

Enter ==
    /\ fn_output = {}
    /\ \E r \in NotInPosition(Bot, fn_input.price, fn_input.regime,
                               fn_input.sig, fn_input.high_tf_trend,
                               fn_input.medium_tf_trend) :
        /\ CycleObserved(r)
        /\ SetBot(r.b)
        /\ fn_output' = {[called |-> r.called, rule |-> r.rule,
                          balance |-> r.balance,
                          position_value |-> r.position_value]}
    /\ UNCHANGED <<run_state, fn_input>>

EntryNext == Enter

EntrySpec == EntryInit /\ [][EntryNext]_vars

\* --------------------------------------------- entry sizing of the cycle
\* the not-in-position branch applied once to an entry signal at the
\* threshold, on accounts from too small for the minimum order to large,
\* with the exchange info lookup or the balance query possibly failing
SizingBalances == {5000000, 8000000, 12000000, 14500000, 100000000}

SizingInputs ==
    {i \in EntryInputs :
        /\ i.sig.strength = 6
        /\ i.sig.signal # "HOLD"
        /\ i.high_tf_trend = "NEUTRAL"
        /\ i.medium_tf_trend = "NEUTRAL"}

SizingInit ==
    /\ scenario \in {"lookup_failure", "balance_failure"}
    /\ LoadedWith("TRENDING", SizingBalances)
    /\ fn_input \in SizingInputs
    /\ fn_output = {}

SizingSpec == SizingInit /\ [][EntryNext]_vars

\* ---------------------------------------------- exit rules of the cycle
\* a flat bot opens a position by one buy() or short(), then the
\* in-position branch of the cycle is applied once to a price, a regime
\* and a fused signal; the exchange may hold nothing of what was bought
\* and the balance query may fail
ExitInputs ==
    [price : Prices,
     regime : {"TRENDING", "RANGING"},
     sig : [signal : IF IsFutures
                     THEN {"LONG", "SHORT", "HOLD"}
                     ELSE {"BUY", "SELL", "HOLD"},
            strength : {0, 4, 5, 6, 14}]]

ExitInit ==
    /\ scenario \in {"drift", "balance_failure"}
    /\ Constructed
    /\ fn_input \in ExitInputs
    /\ fn_output = {}

OpenLong == ~in_position /\ trades_history = <<>> /\ Buy

OpenShort == ~in_position /\ trades_history = <<>> /\ Short

Exit ==
    /\ in_position
    /\ fn_output = {}
    /\ \E r \in InPosition(Bot, fn_input.price, fn_input.regime,
                            fn_input.sig) :
        /\ CycleObserved(r)
        /\ SetBot(r.b)
        /\ fn_output' = {[called |-> r.called, rule |-> r.rule]}
    /\ UNCHANGED <<run_state, fn_input>>

ExitNext == OpenLong \/ OpenShort \/ Exit

ExitSpec == ExitInit /\ [][ExitNext]_vars

\* ------------------------------------------- the loop on a losing position
\* a flat bot opens a position by one buy() or short(), whose order the
\* exchange may report unfilled or partly filled; from then on the loop
\* runs cycle after cycle at one price, regime and fused signal, at which
\* the profit of the position is at or below the emergency threshold;
\* every request of these cycles is answered
LosingInit ==
    /\ scenario = "unfilled"
    /\ Constructed
    /\ fn_input \in ExitInputs
    /\ fn_output = {}

\* the position is open and its profit at the price of the cycles is at
\* or below -2 * stop_loss_pct of their regime
Losing ==
    /\ in_position
    /\ (trading_mode = "SPOT" \/ position_side \in {"LONG", "SHORT"})
    /\ ProfitNum(Bot, fn_input.price)
            <= (0 - market_conditions[fn_input.regime].stop_loss_x2)
                    * ProfitDen(Bot)

\* one iteration of the loop of run() on the losing position
LosingCycle ==
    /\ Losing
    /\ \E r \in InPosition(Bot, fn_input.price, fn_input.regime,
                            fn_input.sig) :
        /\ CycleObserved(r)
        /\ SetBot(r.b)
        /\ fn_output' = {[called |-> r.called, rule |-> r.rule]}
    /\ UNCHANGED <<run_state, fn_input>>

LosingNext == OpenLong \/ OpenShort \/ LosingCycle

\* the loop never stops running cycles: while True ... sleep
LosingSpec ==
    LosingInit /\ [][LosingNext]_vars /\ WF_vars(LosingCycle)

\* ------------------------------------------- the two regimes of a cycle
\* a bot that holds either regime, flat or after one buy() or short(),
\* runs the pipeline of one cycle from its regime detection to its
\* position decision while the candle data changes or fails between the
\* cycle's detection and the fuser's; the cycle's market_condition, the
\* market_condition the fuser reports and the fused signal are kept
RegimeInit ==
    /\ scenario = "data"
    /\ \E market_condition \in {"TRENDING", "RANGING"} :
            Loaded(market_condition)
    /\ NoFunction

Evaluate ==
    /\ fn_output = {}
    /\ \E price \in Prices, d1 \in DetectOutcomes, results \in TfScenarios :
        LET d == detect_market_condition(Bot, d1)
        IN  \E f \in Fused(d.b, d.condition, results) :
            \E r \in Decide(f.b, price, d.condition, f.sig,
                             results["4h"].trend, results["1h"].trend) :
                /\ CycleObserved(r)
                /\ SetBot(r.b)
                /\ fn_output' = {[market_condition |-> d.condition,
                                  fused_market_condition |->
                                        f.market_condition,
                                  signal |-> f.sig.signal,
                                  strength |-> f.sig.strength,
                                  rule |-> r.rule,
                                  called |-> r.called]}
    /\ UNCHANGED <<run_state, fn_input>>

RegimeNext == OpenLong \/ OpenShort \/ Evaluate

RegimeSpec == RegimeInit /\ [][RegimeNext]_vars

\* ------------------------------------------------ KDJ parameter commands
\* the operator sets, resets and optimizes the parameters in any order;
\* the values entered lie at, inside and outside the limits
KdjTimeframes == Timeframes \cup {"1d"}
KdjValues ==
    {<<3, 1, 1>>, <<50, 10, 10>>, <<2, 3, 3>>, <<51, 3, 3>>,
     <<9, 0, 3>>, <<9, 11, 3>>, <<9, 3, 0>>, <<9, 3, 11>>}

KdjInit == scenario = "order_errors" /\ Constructed /\ NoFunction

\* a parameter command ran: its name, its arguments and what it returned
KdjCommand(op, args, r) ==
    /\ kdj_params' = r.params
    /\ last_op' = op
    /\ last_ret' = r.ret
    /\ fn_input' = args
    /\ UNCHANGED <<scenario, trading_mode, leverage, in_position,
                   position_side, position_price, position_amount,
                   last_action, current_market_condition, trades_history,
                   saved_state, trades_file, lot_step, quote_balance,
                   exchange_held, last_fault, orders_submitted, exit_quantity, cycle_rule,
                   cycle_price, cycle_regime, cycle_attempts, run_state,
                   fn_output>>

SetKdj ==
    \E timeframe \in KdjTimeframes, t \in KdjValues :
        KdjCommand("set_custom_kdj_params",
                   [timeframe |-> timeframe, k_period |-> t[1],
                    k_smooth |-> t[2], d_smooth |-> t[3]],
                   set_custom_kdj_params(kdj_params, timeframe,
                                         t[1], t[2], t[3]))

ResetKdj == KdjCommand("reset_kdj_params", {}, reset_kdj_params(kdj_params))

OptimizeKdj ==
    \E market_condition \in {"TRENDING", "RANGING", "UNKNOWN"} :
        KdjCommand("optimize_parameters_for_market_condition",
                   [market_condition |-> market_condition],
                   optimize_parameters_for_market_condition(
                       kdj_params, market_condition))

KdjNext == SetKdj \/ ResetKdj \/ OptimizeKdj

KdjSpec == KdjInit /\ [][KdjNext]_vars

\* ------------------------------------------- analysis of one timeframe
\* one timeframe analysed once, on every candle series of up to MaxCandles
\* candles of a market moving between two price levels
Candles ==
    {c \in [high : {10, 12}, low : {10, 12}, close : {10, 11, 12}] :
        c.low <= c.close /\ c.close <= c.high}
CandleSeries == UNION {[1..n -> Candles] : n \in 0..MaxCandles}
IndicatorParams == {<<3, 3, 3>>, <<3, 1, 3>>, <<4, 3, 1>>}

IndicatorInit ==
    /\ scenario = "data"
    /\ Constructed
    /\ trading_mode = "SPOT"
    /\ fn_input \in [klines : CandleSeries, kdj_params : IndicatorParams]
    /\ fn_output = {}

Analyze ==
    /\ fn_output = {}
    /\ fn_output' = {analyze_timeframe(fn_input.klines,
                                        fn_input.kdj_params)}
    /\ UNCHANGED <<scenario, trading_mode, leverage, in_position,
                   position_side, position_price, position_amount,
                   last_action, current_market_condition, trades_history,
                   saved_state, trades_file, lot_step, quote_balance,
                   kdj_params, exchange_held, last_op, last_ret, last_fault,
                   orders_submitted, exit_quantity, cycle_rule, cycle_price, cycle_regime,
                   cycle_attempts, run_state, fn_input>>

IndicatorNext == Analyze

IndicatorSpec == IndicatorInit /\ [][IndicatorNext]_vars

\* ------------------------------------------------ vote of one timeframe
\* analyze_kdj_signals applied once to every pair of a previous and a
\* current row whose K and D lie around each other and around 50 and whose
\* J lies at and beyond the limits 20 and 80
KdjPoints ==
    [K : {49 * KdjUnit, 50 * KdjUnit, 51 * KdjUnit},
     D : {49 * KdjUnit, 50 * KdjUnit, 51 * KdjUnit},
     J : {19 * KdjUnit, 20 * KdjUnit, 80 * KdjUnit, 81 * KdjUnit}]

VoteInit ==
    /\ scenario = "data"
    /\ Constructed
    /\ trading_mode = "SPOT"
    /\ fn_input \in [1..2 -> KdjPoints]
    /\ fn_output = {}

Vote ==
    /\ fn_output = {}
    /\ fn_output' = {analyze_kdj_signals(fn_input)}
    /\ UNCHANGED <<scenario, trading_mode, leverage, in_position,
                   position_side, position_price, position_amount,
                   last_action, current_market_condition, trades_history,
                   saved_state, trades_file, lot_step, quote_balance,
                   kdj_params, exchange_held, last_op, last_ret, last_fault,
                   orders_submitted, exit_quantity, cycle_rule, cycle_price, cycle_regime,
                   cycle_attempts, run_state, fn_input>>

VoteNext == Vote

VoteSpec == VoteInit /\ [][VoteNext]_vars

\* ---------------------------------------------- detect_market_condition()
\* regime detections one after the other, by a bot that holds either
\* regime; fn_input is the sequence of what the detections came to,
\* fn_output the sequence of what they returned
DetectInit ==
    /\ scenario = "data"
    /\ \E market_condition \in {"TRENDING", "RANGING"} :
            Loaded(market_condition)
    /\ fn_input = <<>>
    /\ fn_output = <<>>

Detect ==
    /\ Len(fn_input) < MaxDetections
    /\ \E d \in DetectOutcomes :
        LET r == detect_market_condition(Bot, d)
        IN  /\ SetBot(r.b)
            /\ fn_input' = Append(fn_input, d)
            /\ fn_output' = Append(fn_output,
                    [condition |-> r.condition, saved |-> r.saved])
    /\ UNCHANGED <<last_op, last_ret, last_fault, orders_submitted, exit_quantity,
                   cycle_rule, cycle_price, cycle_regime, cycle_attempts,
                   run_state>>

DetectNext == Detect

DetectSpec == DetectInit /\ [][DetectNext]_vars

\* ------------------------------------------------------------ the ledger
\* the operations of the manager, the aggregation of the ledger among
\* them, where the trade history file can be unwritable
LedgerInit == scenario \in LedgerScenarios /\ Constructed /\ NoFunction

\* calculate_total_profit_loss, called for a profit report: it reads the
\* ledger and changes nothing (what it returns is studied in
\* AggregateSpec)
Aggregate ==
    /\ fn_output' = {}
    /\ last_op' = "aggregate"
    /\ last_ret' = FALSE
    /\ last_fault' = "none"
    /\ orders_submitted' = 0
    /\ exit_quantity' = 0
    /\ cycle_rule' = "none"
    /\ cycle_price' = 0
    /\ cycle_regime' = "TRENDING"
    /\ cycle_attempts' = 0
    /\ UNCHANGED <<scenario, trading_mode, leverage, in_position,
                   position_side, position_price, position_amount,
                   last_action, current_market_condition, trades_history,
                   saved_state, trades_file, lot_step, quote_balance, kdj_params, exchange_held,
                   run_state, fn_input>>

LedgerNext ==
    \/ Buy
    \/ Sell
    \/ Short
    \/ CloseShort
    \/ Cycle
    \/ ExternalChange
    \/ Aggregate

LedgerSpec == LedgerInit /\ [][LedgerNext]_vars

\* ------------------------------------- the aggregation applied to a ledger
\* calculate_total_profit_loss applied once to every ledger of up to
\* MaxLedger trade records
Ledgers == UNION {[1..n -> TradeRecords] : n \in 0..MaxLedger}

AggregateInit ==
    /\ scenario = "order_errors"
    /\ Constructed
    /\ trading_mode = "SPOT"
    /\ fn_input \in Ledgers
    /\ fn_output = {}

Report ==
    /\ fn_output = {}
    /\ fn_output' = {calculate_total_profit_loss(fn_input)}
    /\ UNCHANGED <<scenario, trading_mode, leverage, in_position,
                   position_side, position_price, position_amount,
                   last_action, current_market_condition, trades_history,
                   saved_state, trades_file, lot_step, quote_balance, kdj_params, exchange_held,
                   last_op, last_ret, last_fault, orders_submitted, exit_quantity,
                   cycle_rule, cycle_price, cycle_regime, cycle_attempts,
                   run_state, fn_input>>

AggregateNext == Report

AggregateSpec == AggregateInit /\ [][AggregateNext]_vars

\* C11: no failure inside a cycle leaves execute_trading_strategy: after
\* every cycle, whatever it ended in, the loop of run() is still running,
\* and the loop stops only by the operator's interrupt
C11_LoopSurvivesFailures ==
    [][/\ cycle_rule' # "none" => run_state' = "running"
       /\ run_state' # run_state =>
            /\ run_state' = "interrupted"
            /\ last_op' = "interrupt"]_vars

\* a cycle failed on each of its attempts and the loop runs on
C11_LoopRunsAfterFailedCycle ==
    /\ cycle_rule = "max_retries"
    /\ cycle_attempts = MaxCycleRetries
    /\ run_state = "running"

FailureRules == {"no_price", "analysis_error", "max_retries"}

\* C12 as stated: a cycle that ends in a failure has made all three
\* attempts, has sent no order and has changed no state
C12_EveryFailureRetried ==
    [][cycle_rule' \in FailureRules =>
        /\ cycle_attempts' = MaxCycleRetries
        /\ orders_submitted' = 0
        /\ UNCHANGED <<in_position, position_side, position_price,
                       position_amount, last_action,
                       current_market_condition, trades_history,
                       saved_state>>]_vars

\* C12 amended: a cycle makes at most three attempts; it ends on a failed
\* price fetch or on an exception of the fuser or the decision only after
\* the third attempt, while a failed analysis ends it at once; a cycle
\* that ends in a failure has sent no order and has changed neither the
\* position nor the ledger (the held regime may have changed)
C12_BoundedRetry ==
    [][cycle_rule' # "none" =>
        /\ cycle_attempts' \in 1..MaxCycleRetries
        /\ cycle_rule' \in {"no_price", "max_retries"} =>
                cycle_attempts' = MaxCycleRetries
        /\ cycle_rule' \in FailureRules =>
            /\ orders_submitted' = 0
            /\ last_op' = "none"
            /\ UNCHANGED <<in_position, position_side, position_price,
                           position_amount, last_action, trades_history,
                           exchange_held>>]_vars

\* the price fetch failed on each of the three attempts
C12_PriceRetriesExhausted ==
    /\ cycle_rule = "no_price"
    /\ cycle_attempts = MaxCycleRetries

\* C13: safe_api_call calls the wrapped function at most 3 times; it
\* stops at the first attempt that succeeds and returns its result; if all
\* three fail it raises the exception of the third; it sleeps once between
\* two attempts, 5 seconds until an attempt has failed on the rate limit
\* and 10 seconds from then on
C13_BoundedApiRetry ==
    \A out \in fn_output :
        LET succeeded == {i \in 1..MaxApiRetries : fn_input[i] = "ok"}
            RateLimited(i) == \E j \in 1..i : fn_input[j] = "rate_limit"
        IN  /\ out.calls \in 1..MaxApiRetries
            /\ succeeded # {} =>
                /\ out.raised = "none"
                /\ out.calls \in succeeded
                /\ \A i \in succeeded : out.calls <= i
            /\ succeeded = {} =>
                /\ out.calls = MaxApiRetries
                /\ out.raised = fn_input[MaxApiRetries]
            /\ Len(out.slept) = out.calls - 1
            /\ \A i \in 1..Len(out.slept) :
                    out.slept[i] = IF RateLimited(i)
                                   THEN RateLimitDelay
                                   ELSE RetryDelay

\* three failed attempts, the rate limit hit on the second: the delays are
\* 5 and 10 seconds and the third exception is raised
C13_RaisedAfterEscalation ==
    \E out \in fn_output :
        /\ out.calls = MaxApiRetries
        /\ out.raised # "none"
        /\ out.slept = <<RetryDelay, RateLimitDelay>>

\* C14: when the 5m or the 15m result is UNDEFINED, one of them or both,
\* the fuser returns HOLD with strength 0 without scoring and without
\* detecting the regime (the held regime and the state file stay as they
\* are); when both are defined and the 1h and 4h results are UNDEFINED it
\* returns the scored signal that neutral 1h and 4h results would give
C14_FuserFailSoft ==
    [][\A out \in fn_output' \ fn_output :
        LET fast_undefined == \/ fn_input["5m"].signal = "UNDEFINED"
                              \/ fn_input["15m"].signal = "UNDEFINED"
            slow_undefined == /\ fn_input["1h"].signal = "UNDEFINED"
                              /\ fn_input["4h"].signal = "UNDEFINED"
            without_slow ==
                [tf \in Timeframes |->
                    IF tf \in {"1h", "4h"}
                    THEN Tf("HOLD", "NEUTRAL", FALSE, FALSE, FALSE, FALSE)
                    ELSE fn_input[tf]]
        IN  /\ fast_undefined =>
                /\ out.signal = "HOLD"
                /\ out.strength = 0
                /\ out.market_condition = "none"
                /\ UNCHANGED <<current_market_condition, saved_state>>
            /\ ~fast_undefined /\ slow_undefined =>
                /\ out.market_condition \in {"TRENDING", "RANGING"}
                /\ out.strength = Abs(RawStrength(without_slow))
                /\ out.signal =
                    generate_combined_signal(
                        without_slow, out.market_condition).signal]_vars

\* the 5m result is a BUY, the 15m result is UNDEFINED, and the fuser
\* has returned HOLD
C14_HoldOnOneUndefined ==
    \E out \in fn_output :
        /\ fn_input["5m"].signal = "BUY"
        /\ fn_input["15m"].signal = "UNDEFINED"
        /\ out.signal = "HOLD"
        /\ out.strength = 0

\* C15: when the fuser scores, with raw strength s and the threshold t of
\* the regime it detected, it returns BUY (futures: LONG) iff s >= t,
\* SELL (futures: SHORT) iff s <= -t and HOLD otherwise, and the strength
\* it reports is |s|
C15_DecisionRule ==
    \A out \in fn_output :
        out.market_condition # "none" =>
            LET s == RawStrength(fn_input)
                t == market_conditions[out.market_condition]
                        .signal_strength_threshold
                up == IF trading_mode = "FUTURES" THEN "LONG" ELSE "BUY"
                down == IF trading_mode = "FUTURES" THEN "SHORT" ELSE "SELL"
            IN  /\ out.signal \in {up, down, "HOLD"}
                /\ out.signal = up <=> s >= t
                /\ out.signal = down <=> s <= 0 - t
                /\ out.signal = "HOLD" <=> (0 - t < s /\ s < t)
                /\ out.strength = Abs(s)

\* a raw strength of -6 under the RANGING threshold 6 was fused to SHORT
C15_ShortAtThreshold ==
    \E out \in fn_output :
        /\ out.market_condition = "RANGING"
        /\ RawStrength(fn_input) = 0 - 6
        /\ out.signal = "SHORT"
        /\ out.strength = 6

\* C16: the strength reported by the fuser lies in 0..10
C16_StrengthWithinTen ==
    \A out \in fn_output : out.strength \in 0..10

\* C17: from FLAT, with a BUY/LONG signal of at least the threshold of
\* the cycle's regime, no operation is called and no order is sent when
\* the regime is TRENDING and the 1h and 4h trends are both BEARISH, or
\* the regime is RANGING and the 1h trend is BEARISH, and buy() is called
\* in every other case; the same for a SHORT signal with BULLISH trends
\* and short()
C17_TrendVeto ==
    [][\A out \in fn_output' \ fn_output :
        LET i == fn_input
            t == market_conditions[i.regime].signal_strength_threshold
            strong_buy == /\ i.sig.signal \in {"BUY", "LONG"}
                          /\ i.sig.strength >= t
            strong_short == /\ i.sig.signal = "SHORT"
                            /\ i.sig.strength >= t
            Against(trend) ==
                \/ /\ i.regime = "TRENDING"
                   /\ i.high_tf_trend = trend
                   /\ i.medium_tf_trend = trend
                \/ /\ i.regime = "RANGING"
                   /\ i.medium_tf_trend = trend
            vetoed == \/ strong_buy /\ Against("BEARISH")
                      \/ strong_short /\ Against("BULLISH")
        IN  /\ vetoed =>
                /\ out.called = "none"
                /\ orders_submitted' = 0
                /\ UNCHANGED <<in_position, position_side, position_price,
                               position_amount, trades_history,
                               exchange_held>>
            /\ strong_buy /\ ~vetoed => out.called = "buy"
            /\ strong_short /\ ~vetoed => out.called = "short"]_vars

\* a BUY/LONG signal at the RANGING threshold met a BEARISH 1h trend
\* under a BULLISH 4h trend, and no operation was called
C17_VetoedInRangingMarket ==
    \E out \in fn_output :
        /\ fn_input.regime = "RANGING"
        /\ fn_input.sig.signal \in {"BUY", "LONG"}
        /\ fn_input.sig.strength = 6
        /\ fn_input.medium_tf_trend = "BEARISH"
        /\ fn_input.high_tf_trend = "BULLISH"
        /\ out.called = "none"
        /\ ~in_position

\* C18: a detection that finds too few 4h candles returns the regime held
\* before it, so a held RANGING regime is returned as RANGING
C18_InsufficientReturnsHeld ==
    [][Len(fn_input') > Len(fn_input)
       /\ fn_input'[Len(fn_input')] = "insufficient"
       => fn_output'[Len(fn_output')].condition
            = current_market_condition]_vars

\* C19: a detection changes the held regime, and calls save_state, exactly
\* when the label it computes differs from the held one, and then the
\* state file holds the new regime; it never does either otherwise; so of
\* consecutive detections computing the same label only the first can
\* write the state
C19_RegimeHysteresis ==
    /\ [][Len(fn_input') > Len(fn_input) =>
            LET d == fn_input'[Len(fn_input')]
                out == fn_output'[Len(fn_output')]
                differs == /\ d \in {"TRENDING", "RANGING"}
                           /\ d # current_market_condition
            IN  /\ differs =>
                    /\ out.saved
                    /\ current_market_condition' = d
                    /\ saved_state'.market_condition = d
                /\ ~differs =>
                    /\ ~out.saved
                    /\ UNCHANGED <<current_market_condition,
                                   saved_state>>]_vars
    /\ [](\A i \in 1..Len(fn_input) : \A j \in 1..Len(fn_input) :
            (/\ i < j
             /\ fn_input[i] \in {"TRENDING", "RANGING"}
             /\ \A k \in i..j : fn_input[k] = fn_input[i])
            => ~fn_output[j].saved)

\* three detections computed RANGING one after the other, the first wrote
\* the state and the other two did not
C19_OneWriteForThreeDetections ==
    /\ fn_input = <<"RANGING", "RANGING", "RANGING">>
    /\ Len(fn_output) = 3
    /\ fn_output[1].saved
    /\ ~fn_output[2].saved
    /\ ~fn_output[3].saved

\* C20: every operation leaves the ledger it found as a prefix of the
\* ledger it leaves and appends at most one record; an order operation
\* that reports success has appended exactly one, also when the trade
\* history file cannot be written, in which case the file stays as it was
C20_LedgerAppendOnly ==
    [][/\ Len(trades_history') \in
            {Len(trades_history), Len(trades_history) + 1}
       /\ SubSeq(trades_history', 1, Len(trades_history)) = trades_history
       /\ (last_ret' /\ last_op' \in {"buy", "sell", "short", "close_short"})
            => Len(trades_history') = Len(trades_history) + 1
       /\ scenario = "trades_file_failure" => trades_file' = trades_file
       /\ scenario # "trades_file_failure" => trades_file' = trades_history'
      ]_vars

\* two trades are in the ledger and none of them is on file
C20_RecordedButNotPersisted ==
    /\ scenario = "trades_file_failure"
    /\ Len(trades_history) = 2
    /\ trades_file = <<>>

\* C21: for every ledger the aggregation returns total_trades equal to
\* the length of the ledger, total_profit_loss equal to the sum of the
\* profit_loss of the sell, close_long and close_short records that carry
\* one, buy_trades + sell_trades equal to total_trades, and a
\* roi_percentage of total_profit_loss / total_buy_volume * 100, or 0 when
\* the entries have no volume
C21_LedgerAggregation ==
    \A out \in fn_output :
        LET n == Len(fn_input)
            realized == {i \in 1..n :
                            /\ fn_input[i].type \in
                                {"sell", "close_long", "close_short"}
                            /\ fn_input[i].profit_loss # {}}
            pnl == [i \in 1..n |->
                        IF i \in realized
                        THEN CHOOSE v \in fn_input[i].profit_loss : TRUE
                        ELSE 0]
            bought == [i \in 1..n |->
                        IF fn_input[i].type \in {"buy", "long", "short"}
                        THEN fn_input[i].value_usdt
                        ELSE 0]
        IN  /\ out.total_trades = n
            /\ out.total_profit_loss = SeqSum(pnl)
            /\ out.buy_trades + out.sell_trades = out.total_trades
            /\ out.total_buy_volume = SeqSum(bought)
            /\ SeqSum(bought) > 0 =>
                    out.roi_num * SeqSum(bought)
                        = SeqSum(pnl) * 100 * out.roi_den
            /\ SeqSum(bought) = 0 => out.roi_num = 0

\* a buy of 75 without and a sell with a profit of 3 were aggregated to a
\* profit of 3 on a buy volume of 75
C21_ProfitOnOneRoundTrip ==
    \E out \in fn_output :
        /\ Len(fn_input) = 2
        /\ fn_input[1].type = "buy"
        /\ fn_input[1].profit_loss = {}
        /\ fn_input[1].value_usdt = 75
        /\ fn_input[2].type = "sell"
        /\ fn_input[2].profit_loss = {3}
        /\ out.total_profit_loss = 3
        /\ out.roi_num = 300
        /\ out.roi_den = 75

C23_EstimatedTradeFlagged ==
    \A i \in 1..Len(trades_history) :
        trades_history[i].price_from = "requested" =>
            trades_history[i].details = "fallback_values_used"

C25_ShortIsFuturesOnly ==
    [][trading_mode = "SPOT"
        => /\ position_side' # "SHORT"
           /\ last_op' \in {"short", "close_short"}
                => /\ ~last_ret'
                   /\ orders_submitted' = 0
                   /\ UNCHANGED <<in_position, position_side, position_price,
                                  position_amount, last_action,
                                  trades_history, saved_state, trades_file>>
           /\ (~in_position /\ cycle_rule' # "none"
                    /\ orders_submitted' > 0)
                => last_op' = "buy"
           /\ (~in_position /\ cycle_rule' # "none")
                => \A price \in Prices, regime \in {"TRENDING", "RANGING"},
                      strength \in 0..14 :
                     NotInPosition(Bot, price, regime,
                                   [signal |-> "SELL",
                                    strength |-> strength],
                                   "BEARISH", "BEARISH")
                       = {CycleResult(Bot, "no_signal", price, regime,
                                      "none", NoCall(Bot), NoStop)}
      ]_vars

\* short() was called in SPOT mode by a flat bot and returned failure
C25_ShortRefusedInSpot ==
    /\ trading_mode = "SPOT"
    /\ last_op = "short"
    /\ cycle_rule = "none"
    /\ ~last_ret
    /\ orders_submitted = 0
    /\ position_side = "None"

\* C26: set_custom_kdj_params returns true iff the timeframe is one of the
\* four analysed ones, k_period is in 3..50 and k_smooth and d_smooth are
\* in 1..10; an accepted call changes the parameters of that timeframe
\* only, a rejected call changes none; before and after every set, reset
\* and optimize command the parameters of each timeframe are in these
\* ranges
C26_KdjParamsStayValid ==
    [][LET InRange(t) == /\ t[1] >= 3 /\ t[1] <= 50
                         /\ t[2] >= 1 /\ t[2] <= 10
                         /\ t[3] >= 1 /\ t[3] <= 10
           Valid(params) == \A tf \in Timeframes : InRange(params[tf])
       IN  /\ Valid(kdj_params)
           /\ Valid(kdj_params')
           /\ last_op' = "set_custom_kdj_params" =>
                LET a == fn_input'
                    t == <<a.k_period, a.k_smooth, a.d_smooth>>
                IN  /\ last_ret' <=> (a.timeframe \in Timeframes
                                        /\ InRange(t))
                    /\ last_ret' =>
                        kdj_params' = [kdj_params EXCEPT ![a.timeframe] = t]
                    /\ ~last_ret' => kdj_params' = kdj_params
      ]_vars

\* a call with a smoothing value out of range was rejected after the
\* parameters of that timeframe had been changed from their defaults
C26_RejectedAfterChange ==
    /\ last_op = "set_custom_kdj_params"
    /\ ~last_ret
    /\ fn_input.timeframe = "5m"
    /\ fn_input.k_smooth = 11
    /\ kdj_params["5m"] = <<50, 10, 10>>

\* C27: a timeframe whose candle series has fewer than k_period + 2
\* candles (so also every series with fewer than 2 rows whose window is
\* full) gets the sentinel result, signal UNDEFINED and trend UNDEFINED
\* with all flags false, never a BUY, SELL or HOLD vote
C27_InsufficientDataYieldsNoVote ==
    \A out \in fn_output :
        Len(fn_input.klines) < fn_input.kdj_params[1] + 2
            => out = TfUndefined

\* C28: for every pair of a previous and a current (K, D, J) point the
\* vote is BUY iff goldenCross or (current K > current D and J < 20),
\* else SELL iff deathCross or (current K < current D and J > 80), else
\* HOLD, with goldenCross = previous K <= previous D and current K >
\* current D, and deathCross = previous K >= previous D and current K <
\* current D
C28_PerTimeframeVote ==
    \A out \in fn_output :
        LET previous == fn_input[1]
            current == fn_input[2]
            goldenCross == previous.K <= previous.D /\ current.K > current.D
            deathCross == previous.K >= previous.D /\ current.K < current.D
            buyVote == goldenCross
                   \/ (current.K > current.D /\ current.J < 20 * KdjUnit)
            sellVote == deathCross
                    \/ (current.K < current.D /\ current.J > 80 * KdjUnit)
        IN  /\ out.signal = "BUY" <=> buyVote
            /\ out.signal = "SELL" <=> (~buyVote /\ sellVote)
            /\ out.signal = "HOLD" <=> (~buyVote /\ ~sellVote)
            /\ out.golden_cross = goldenCross
            /\ out.death_cross = deathCross

\* a SELL vote on a death cross although J is below 20
C28_SellOnDeathCross ==
    /\ fn_output # {}
    /\ \A out \in fn_output : out.signal = "SELL" /\ out.j_oversold
    /\ fn_input[1].K >= fn_input[1].D
    /\ fn_input[2].K < fn_input[2].D

\* C29 as stated: in a cycle that begins with an open long (or SHORT) and
\* completes its analysis, the exit operation sell (close_short) is called
\* iff profit <= -2 x stop loss, or profit >= take profit, or the fused
\* signal is SELL/SHORT (BUY/LONG) with a strength at or above the regime
\* threshold, or the price is at or below the trailing stop (at or above
\* the trailing ceiling); when none holds no operation is called, no order
\* is sent and the position state is unchanged
C29_ExitIffAtOrBelow ==
    [][(/\ in_position
        /\ fn_output' # {}
        /\ (trading_mode = "SPOT" \/ position_side \in {"LONG", "SHORT"}))
        => LET long == trading_mode = "SPOT" \/ position_side = "LONG"
               prm == market_conditions[fn_input.regime]
               profit == ProfitNum(Bot, fn_input.price)
               den == ProfitDen(Bot)
               signal_exit ==
                    /\ fn_input.sig.signal \in
                            (IF long THEN {"SELL", "SHORT"}
                                     ELSE {"BUY", "LONG"})
                    /\ fn_input.sig.strength
                            >= prm.signal_strength_threshold
               stop_hit ==
                    IF long
                    THEN fn_input.price * StopDen(Bot)
                            <= LongStopNum(Bot, fn_input.price,
                                           prm.stop_loss_x2)
                    ELSE fn_input.price * StopDen(Bot)
                            >= ShortStopNum(Bot, fn_input.price,
                                            prm.stop_loss_x2)
               due == \/ profit <= (0 - prm.stop_loss_x2) * den
                      \/ 2 * profit >= prm.take_profit_x2 * den
                      \/ signal_exit
                      \/ stop_hit
           IN  /\ (last_op' = (IF long THEN "sell" ELSE "close_short"))
                    <=> due
               /\ ~due => /\ last_op' = "none"
                          /\ orders_submitted' = 0
                          /\ UNCHANGED <<in_position, position_side,
                                         position_price, position_amount>>
      ]_vars

\* C29 amended: in a cycle that begins with an open long (or SHORT),
\* completes its analysis and is not ended by the spot balance correction,
\* the exit operation sell (close_short) is called iff the profit is
\* strictly below -2 x stop loss, or profit >= take profit, or the fused
\* signal is SELL/SHORT (BUY/LONG) with a strength at or above the regime
\* threshold, or the price is at or below the trailing stop (at or above
\* the trailing ceiling); when none holds no operation is called, no order
\* is sent and the position state is unchanged
C29_ExitIffStrictlyBelow ==
    [][(/\ in_position
        /\ fn_output' # {}
        /\ cycle_rule' # "balance_correction"
        /\ (trading_mode = "SPOT" \/ position_side \in {"LONG", "SHORT"}))
        => LET long == trading_mode = "SPOT" \/ position_side = "LONG"
               prm == market_conditions[fn_input.regime]
               profit == ProfitNum(Bot, fn_input.price)
               den == ProfitDen(Bot)
               signal_exit ==
                    /\ fn_input.sig.signal \in
                            (IF long THEN {"SELL", "SHORT"}
                                     ELSE {"BUY", "LONG"})
                    /\ fn_input.sig.strength
                            >= prm.signal_strength_threshold
               stop_hit ==
                    IF long
                    THEN fn_input.price * StopDen(Bot)
                            <= LongStopNum(Bot, fn_input.price,
                                           prm.stop_loss_x2)
                    ELSE fn_input.price * StopDen(Bot)
                            >= ShortStopNum(Bot, fn_input.price,
                                            prm.stop_loss_x2)
               due == \/ profit < (0 - prm.stop_loss_x2) * den
                      \/ 2 * profit >= prm.take_profit_x2 * den
                      \/ signal_exit
                      \/ stop_hit
           IN  /\ (last_op' = (IF long THEN "sell" ELSE "close_short"))
                    <=> due
               /\ ~due => /\ last_op' = "none"
                          /\ orders_submitted' = 0
                          /\ UNCHANGED <<in_position, position_side,
                                         position_price, position_amount>>
      ]_vars

\* a cycle whose only rule in force was the trailing stop sold the long
C29_SoldAtTrailingStop ==
    /\ fn_output # {}
    /\ cycle_rule = "trailing_stop"
    /\ last_op = "sell"
    /\ last_ret
    /\ ~in_position

\* C30: with both fast timeframes defined the raw strength is the sum of
\* one branch. Buy branch (5m or 15m votes BUY): +3 5m BUY, +2 15m BUY,
\* +2 5m golden cross, +1 15m golden cross, +1 1h BULLISH, +1 1h BUY,
\* +2 4h BULLISH, +2 5m oversold else +1 15m oversold, -2 4h BEARISH.
\* Sell branch (else, 5m or 15m votes SELL): -3 5m SELL, -2 15m SELL,
\* -2 5m death cross, -1 15m death cross, -1 1h BEARISH, -1 1h SELL,
\* -2 4h BEARISH, -2 5m overbought else -1 15m overbought, +2 4h BULLISH.
\* Otherwise 0.
C30_FuserScoring ==
    \A out \in fn_output :
        LET m5 == fn_input["5m"]
            m15 == fn_input["15m"]
            h1 == fn_input["1h"]
            h4 == fn_input["4h"]
            W(c, n) == IF c THEN n ELSE 0
            buySum ==
                W(m5.signal = "BUY", 3) + W(m15.signal = "BUY", 2)
                + W(m5.golden_cross, 2) + W(m15.golden_cross, 1)
                + W(h1.trend = "BULLISH", 1) + W(h1.signal = "BUY", 1)
                + W(h4.trend = "BULLISH", 2)
                + W(m5.j_oversold, 2)
                + W(~m5.j_oversold /\ m15.j_oversold, 1)
                - W(h4.trend = "BEARISH", 2)
            sellSum ==
                W(h4.trend = "BULLISH", 2)
                - W(m5.signal = "SELL", 3) - W(m15.signal = "SELL", 2)
                - W(m5.death_cross, 2) - W(m15.death_cross, 1)
                - W(h1.trend = "BEARISH", 1) - W(h1.signal = "SELL", 1)
                - W(h4.trend = "BEARISH", 2)
                - W(m5.j_overbought, 2)
                - W(~m5.j_overbought /\ m15.j_overbought, 1)
        IN  (m5.signal # "UNDEFINED" /\ m15.signal # "UNDEFINED")
                => out.raw_strength =
                        IF m5.signal = "BUY" \/ m15.signal = "BUY"
                        THEN buySum
                        ELSE IF m5.signal = "SELL" \/ m15.signal = "SELL"
                        THEN sellSum
                        ELSE 0

\* 5m votes SELL and 15m votes BUY, both oversold flags are set and the 4h
\* trend is BEARISH: the buy branch alone was applied
C30_BuyBranchOnMixedVotes ==
    /\ fn_output # {}
    /\ fn_input["5m"].signal = "SELL"
    /\ fn_input["15m"].signal = "BUY"
    /\ fn_input["15m"].j_oversold
    /\ fn_input["4h"].trend = "BEARISH"
    /\ \A out \in fn_output : out.raw_strength >= 0

\* C31: with both fast timeframes defined, a 5m or 15m BUY vote selects
\* the buy branch also when the other fast timeframe votes SELL, and that
\* SELL vote with its death cross and overbought flags adds nothing; the
\* raw strength is >= 0 in the buy branch and <= 0 otherwise; the final
\* signal is never SELL/SHORT with a fast BUY vote and never BUY/LONG
\* without one
C31_BranchPrecedenceAndSign ==
    \A out \in fn_output :
        LET m5 == fn_input["5m"]
            m15 == fn_input["15m"]
            fastBuy == m5.signal = "BUY" \/ m15.signal = "BUY"
            Muted(t) == IF t.signal = "SELL"
                        THEN Tf("HOLD", t.trend, t.golden_cross, FALSE,
                                FALSE, t.j_oversold)
                        ELSE t
        IN  /\ (fastBuy /\ m5.signal # "UNDEFINED"
                    /\ m15.signal # "UNDEFINED")
                => /\ out.raw_strength >= 0
                   /\ out.raw_strength =
                        RawStrength([fn_input EXCEPT !["5m"] = Muted(m5),
                                                     !["15m"] = Muted(m15)])
            /\ (~fastBuy /\ m5.signal # "UNDEFINED"
                    /\ m15.signal # "UNDEFINED")
                => out.raw_strength <= 0
            /\ fastBuy => out.signal \notin {"SELL", "SHORT"}
            /\ ~fastBuy => out.signal \notin {"BUY", "LONG"}

\* 5m votes SELL on a death cross, 15m votes BUY and the 4h trend is
\* BEARISH: the buy branch counts the 15m vote and its oversold J only
C31_DisagreeingFastVotes ==
    /\ fn_output # {}
    /\ fn_input["5m"].signal = "SELL"
    /\ fn_input["5m"].death_cross
    /\ fn_input["15m"].signal = "BUY"
    /\ fn_input["4h"].trend = "BEARISH"
    /\ ~fn_input["15m"].golden_cross
    /\ \A out \in fn_output : out.raw_strength = 1 /\ out.signal = "HOLD"

\* C32: in a cycle of an open position that comes to the trailing-stop
\* rule (no earlier rule ended it), the long is sold by that rule iff
\* price <= entry price * (1 - stopLossPct/100), and never at a positive
\* profit; a SHORT is closed by it iff
\* price >= entry price * (1 + stopLossPct/100)
C32_TrailingStopIsEntryStop ==
    [][(/\ in_position
        /\ fn_output' # {}
        /\ (trading_mode = "SPOT" \/ position_side \in {"LONG", "SHORT"}))
        => LET long == trading_mode = "SPOT" \/ position_side = "LONG"
               sl == market_conditions[fn_input.regime].stop_loss_x2
               at_entry_stop ==
                    IF long
                    THEN 200 * fn_input.price
                            <= position_price * (200 - sl)
                    ELSE 200 * fn_input.price
                            >= position_price * (200 + sl)
           IN  /\ cycle_rule' = "trailing_stop"
                    => /\ at_entry_stop
                       /\ ProfitNum(Bot, fn_input.price) < 0
                       /\ last_op' = (IF long THEN "sell"
                                              ELSE "close_short")
               /\ cycle_rule' = "hold"
                    => /\ ~at_entry_stop
                       /\ last_op' = "none"
      ]_vars

\* a SHORT is closed by the trailing stop at a price above its entry
\* ceiling
C32_ShortClosedAtEntryCeiling ==
    /\ fn_output # {}
    /\ cycle_rule = "trailing_stop"
    /\ last_op = "close_short"
    /\ last_ret
    /\ ~in_position
    /\ 200 * cycle_price
            >= position_price
                * (200 + market_conditions[cycle_regime].stop_loss_x2)

C34_PersistedStateTracksMemory ==
    /\ saved_state = StateOf(Bot)
    /\ LET restarted == load_state(saved_state)
       IN  /\ restarted.in_position = in_position
           /\ restarted.position_side = position_side
           /\ restarted.position_price = position_price
           /\ restarted.position_amount = position_amount
           /\ restarted.last_action = last_action
           /\ restarted.leverage = leverage
           /\ restarted.current_market_condition = current_market_condition

\* a spot buy whose fill was reconciled down to the balance the exchange
\* reported, with the reconciled quantity on file
C34_ReconciledQuantityOnFile ==
    /\ last_op = "buy"
    /\ last_ret
    /\ trading_mode = "SPOT"
    /\ saved_state.in_position
    /\ position_amount < exchange_held
    /\ saved_state.position_amount = position_amount

\* C35: in spot mode a sell or a cycle takes the bot from in position to
\* FLAT without an order request only when the exchange holds less than
\* 0.0001 of the base asset; a balance query that failed leaves
\* in_position and position_amount as they were
C35_FailedBalanceQueryKeepsPosition ==
    [][(/\ trading_mode = "SPOT"
        /\ in_position
        /\ ~in_position'
        /\ orders_submitted' = 0)
        => exchange_held < DustThreshold
      ]_vars

\* C36: the quantity of an exit order (spot sell, futures close_long,
\* close_short), sent directly or by a cycle, is at most the
\* position_amount the bot tracked when it sent the order
C36_ExitWithinTrackedQuantity ==
    [][(last_op' \in {"sell", "close_short"} /\ orders_submitted' > 0)
        => exit_quantity' <= position_amount
      ]_vars

\* C37: in a cycle whose fuser detected a regime, that regime is the
\* market_condition the cycle takes its threshold, take profit and stop
\* loss from, and a cycle enters a position only on a strength at or
\* above the threshold of that market_condition
C37_OneRegimePerCycle ==
    \A out \in fn_output :
        /\ out.fused_market_condition # "none"
            => out.fused_market_condition = out.market_condition
        /\ out.rule \in {"entry_long", "entry_short"}
            => out.strength >= market_conditions[out.market_condition]
                                    .signal_strength_threshold

\* C38: buy, sell, short and close_short, called directly or by a cycle,
\* append exactly one trade record when they return success and none when
\* they return failure; after a successful buy or short the bot is in
\* position and the last record is a buy, long or short; after a
\* successful sell or close_short it is not in position and the last
\* record is a sell, close_long or close_short
C38_LedgerAndStateMoveTogether ==
    [][last_op' \in {"buy", "sell", "short", "close_short"}
        => LET n == Len(trades_history)
               m == Len(trades_history')
           IN  /\ ~last_ret' => trades_history' = trades_history
               /\ last_ret' =>
                    /\ m = n + 1
                    /\ SubSeq(trades_history', 1, n) = trades_history
               /\ (last_ret' /\ last_op' \in {"buy", "short"}) =>
                    /\ in_position'
                    /\ trades_history'[m].type \in {"buy", "long", "short"}
               /\ (last_ret' /\ last_op' \in {"sell", "close_short"}) =>
                    /\ ~in_position'
                    /\ trades_history'[m].type \in
                            {"sell", "close_long", "close_short"}
      ]_vars

\* a short and the close_short that followed each left one record, the
\* exit record last on a bot that is FLAT
C38_ShortThenCloseRecorded ==
    /\ last_op = "close_short"
    /\ last_ret
    /\ ~in_position
    /\ Len(trades_history) = 2
    /\ trades_history[1].type = "short"
    /\ trades_history[2].type = "close_short"

\* C39: a position whose profit is at or below the emergency threshold in
\* every cycle, in a loop that keeps running cycles whose requests are
\* all answered, is eventually closed: the bot is FLAT and an exit trade
\* (sell, close_long, close_short) is last in the ledger
C39_LosingPositionEventuallyClosed ==
    Losing ~> (/\ ~in_position
               /\ trades_history # <<>>
               /\ trades_history[Len(trades_history)].type
                    \in {"sell", "close_long", "close_short"})
====
